---- MODULE Spec2Model ----
(***************************************************************************)
(* Roach-Tracker: the authentication core (rate limiter, login flow,       *)
(* audit log) and the credential / association store, as state machines.   *)
(*                                                                         *)
(* Strings are sequences of one-character strings, so that strip() and     *)
(* lower() are computed character by character.  An Optional value is the  *)
(* empty sequence (None) or a one-element sequence.  A dict is a function  *)
(* whose DOMAIN is its key set.                                            *)
(***************************************************************************)
EXTENDS Integers, Sequences, FiniteSets, TLC

VARIABLES now, attempts, lockouts, users, next_user_id, properties,
          next_property_id, user_properties, audit_log, ret, pc, loc, obs,
          sightings, next_sighting_id, passwords

vars == <<now, attempts, lockouts, users, next_user_id, properties,
          next_property_id, user_properties, audit_log, ret, pc, loc, obs,
          sightings, next_sighting_id, passwords>>

sg_vars == <<sightings, next_sighting_id>>

rl_vars == <<attempts, lockouts>>

db_vars == <<users, next_user_id, properties, next_property_id, user_properties>>

th_vars == <<pc, loc>>

---------------------------------------------------------------------------
(* Bounds of the model *)

\* the clock advances in steps of TickStep seconds, up to MaxTime
TickStep == 150

MaxTime == 1050

\* longest attempt list a call may extend
MaxAttemptsLen == 6

\* longest audit log a call may extend
MaxAudit == 2

\* request threads of the server, and the calls they make in all
NThreads == 2

MaxCalls == 5

\* login requests of a run, and the step of the clock between them
MaxLogins == 3

LoginTickStep == 900

---------------------------------------------------------------------------
(* Optional values *)

None == <<>>

Some(v) == <<v>>

---------------------------------------------------------------------------
(* str.lower() and str.strip() *)

LowerChar(c) ==
    CASE c = "A" -> "a" [] c = "B" -> "b" [] c = "C" -> "c" [] c = "D" -> "d"
      [] c = "E" -> "e" [] c = "F" -> "f" [] c = "G" -> "g" [] c = "H" -> "h"
      [] c = "I" -> "i" [] c = "J" -> "j" [] c = "K" -> "k" [] c = "L" -> "l"
      [] c = "M" -> "m" [] c = "N" -> "n" [] c = "O" -> "o" [] c = "P" -> "p"
      [] c = "Q" -> "q" [] c = "R" -> "r" [] c = "S" -> "s" [] c = "T" -> "t"
      [] c = "U" -> "u" [] c = "V" -> "v" [] c = "W" -> "w" [] c = "X" -> "x"
      [] c = "Y" -> "y" [] c = "Z" -> "z" [] OTHER -> c

Lower(s) == [i \in 1..Len(s) |-> LowerChar(s[i])]

IsSpace(c) == c \in {" ", "\t", "\n", "\r"}

RECURSIVE LStrip(_)
LStrip(s) == IF s # <<>> /\ IsSpace(Head(s)) THEN LStrip(Tail(s)) ELSE s

RECURSIVE RStrip(_)
RStrip(s) ==
    IF s # <<>> /\ IsSpace(s[Len(s)]) THEN RStrip(SubSeq(s, 1, Len(s) - 1)) ELSE s

Strip(s) == RStrip(LStrip(s))

---------------------------------------------------------------------------
(* The strings the model's requests are made of *)

Bob == <<"b", "o", "b">>

BobCap == <<" ", "B", "o", "b">>

Eve == <<"e", "v", "e">>

Al == <<"a", "l">>

EmailB == <<"b", "@", "x">>

EmailBCap == <<"B", "@", "x", " ">>

EmailBUp == <<"B", "@", "x">>

EmailE == <<"e", "@", "x">>

EmailBad == <<"b", "x">>

Pw1 == <<"p", "a", "s", "s", "w", "o", "r", "d">>

Pw2 == <<"p", "a", "s", "s", "w", "o", "r", "D">>

PwShort == <<"p", "w">>

\* client addresses; a login form may carry any string as its username,
\* an address included
Ip1 == <<"1", ".", "1">>

Ip2 == <<"1", ".", "2">>

ClientIps == {Ip1, Ip2}

\* every key the rate limiter's maps can get in the model
Identifiers == {Bob, Eve, Ip1, Ip2}

---------------------------------------------------------------------------
(* SecurityEvent and the audit log *)

LOGIN_SUCCESS == "login_success"

LOGIN_FAILURE == "login_failed"

ACCOUNT_LOCKED == "account_locked"

REGISTRATION == "registration"

USER_DELETED == "user_deleted"

USER_ACTIVATED == "user_activated"

USER_DEACTIVATED == "user_deactivated"

AuditEntry(event_type, username, user_id, details, ip_address, success) ==
    [event_type |-> event_type, username |-> username, user_id |-> user_id,
     details |-> details, ip_address |-> ip_address, success |-> success]

\* a store_audit_log that keeps only the latest entry
log_security_event_replaces(log, entry, stored) ==
    IF stored THEN <<entry>> ELSE log

\* store_audit_log: INSERT INTO audit_log; the connection may fail
\* (stored = FALSE), and log_security_event swallows the exception
log_security_event(log, entry, stored) ==
    IF stored THEN Append(log, entry) ELSE log

\* a log_security_event that lets the failure of store_audit_log out
log_security_event_reraises(stored) == ~stored

\* whether log_security_event raises to its caller: store_audit_log is
\* called inside try / except Exception, whose handler only logs
log_security_event_raises(stored) == FALSE

---------------------------------------------------------------------------
(* RateLimiter *)

max_attempts == 5

window_seconds == 300

lockout_duration == 900

\* an attempt is <<timestamp, success>>
Failed(list) == SelectSeq(list, LAMBDA a : ~a[2])

\* a cleaning that prunes nothing
_clean_old_attempts_keep_all(att, id, t) == att

\* _clean_old_attempts: keep the attempts with ts > cutoff
_clean_old_attempts(att, id, t) ==
    [att EXCEPT ![id] = SelectSeq(@, LAMBDA a : a[1] > t - window_seconds)]

DictDel(d, k) == [i \in DOMAIN d \ {k} |-> d[i]]

DictSet(d, k, v) == [i \in DOMAIN d \cup {k} |-> IF i = k THEN v ELSE d[i]]

\* is_locked_out at time t: the result and the maps it leaves
is_locked_out(att, lck, id, t) ==
    IF id \in DOMAIN lck
    THEN IF t < lck[id]
         THEN [ret |-> TRUE, attempts |-> att, lockouts |-> lck]
         ELSE [ret |-> FALSE,
               attempts |-> [att EXCEPT ![id] = <<>>],
               lockouts |-> DictDel(lck, id)]
    ELSE [ret |-> FALSE, attempts |-> att, lockouts |-> lck]

\* get_lockout_time_remaining at time t
get_lockout_time_remaining(lck, id, t) ==
    IF id \in DOMAIN lck
    THEN IF lck[id] - t > 0
         THEN [ret |-> Some(lck[id] - t), lockouts |-> lck]
         ELSE [ret |-> None, lockouts |-> DictDel(lck, id)]
    ELSE [ret |-> None, lockouts |-> lck]

\* a threshold that the count has to exceed
LockoutDue_above(list) == Len(Failed(list)) > max_attempts

\* the lockout decision of record_attempt, on the list after the append
LockoutDue(list) == Len(Failed(list)) >= max_attempts

\* a record_attempt whose success branch leaves the lockout in place
record_attempt_keep_lockout(att, lck, id, success, t) ==
    LET cleaned  == _clean_old_attempts(att, id, t)
        appended == [cleaned EXCEPT ![id] = Append(@, <<t, success>>)]
    IN  IF success
        THEN [attempts |-> [appended EXCEPT ![id] = <<>>],
              lockouts |-> lck,
              events   |-> <<>>]
        ELSE IF LockoutDue(appended[id])
             THEN [attempts |-> appended,
                   lockouts |-> DictSet(lck, id, t + lockout_duration),
                   events   |-> <<AuditEntry(ACCOUNT_LOCKED, None, None,
                                             "locked", Some(id), TRUE)>>]
             ELSE [attempts |-> appended, lockouts |-> lck, events |-> <<>>]

\* record_attempt at time t: the maps it leaves and the events it emits
record_attempt(att, lck, id, success, t) ==
    LET cleaned  == _clean_old_attempts(att, id, t)
        appended == [cleaned EXCEPT ![id] = Append(@, <<t, success>>)]
    IN  IF success
        THEN [attempts |-> [appended EXCEPT ![id] = <<>>],
              lockouts |-> IF id \in DOMAIN lck THEN DictDel(lck, id) ELSE lck,
              events   |-> <<>>]
        ELSE IF LockoutDue(appended[id])
             THEN [attempts |-> appended,
                   lockouts |-> DictSet(lck, id, t + lockout_duration),
                   events   |-> <<AuditEntry(ACCOUNT_LOCKED, None, None,
                                             "locked", Some(id), TRUE)>>]
             ELSE [attempts |-> appended, lockouts |-> lck, events |-> <<>>]

\* get_remaining_attempts at time t
get_remaining_attempts(att, id, t) ==
    LET cleaned == _clean_old_attempts(att, id, t)
        n       == max_attempts - Len(Failed(cleaned[id]))
    IN  [ret |-> IF n > 0 THEN n ELSE 0, attempts |-> cleaned]

---------------------------------------------------------------------------
(* Database: users, properties, user_properties *)

Roles == {"admin", "resident", "property_manager"}

RelationshipTypes == {"owner", "manager", "resident"}

MinUsernameLen == 3

MinPasswordLen == 8

Contains(s, c) == \E i \in 1..Len(s) : s[i] = c

\* werkzeug's salted one-way hash, taken as ideal: the digest of (salt,
\* password) is matched by no other password
Digest(salt, password) == <<"digest", salt, password>>

generate_password_hash(password, salt) ==
    [salt |-> salt, digest |-> Digest(salt, password)]

check_password_hash(hash, password) == hash.digest = Digest(hash.salt, password)

\* a row of users as INSERT leaves it (is_active DEFAULT 1, last_login NULL)
UserRow(id, username, email, password_hash, role, full_name) ==
    [id |-> id, username |-> username, email |-> email,
     password_hash |-> password_hash, role |-> role, full_name |-> full_name,
     is_active |-> 1, last_login |-> None]

NoError == ""

UNIQUE_EMAIL == "UNIQUE constraint failed: users.email"

UNIQUE_USERNAME == "UNIQUE constraint failed: users.username"

CHECK_ROLE == "CHECK constraint failed: role IN ('admin', 'resident', 'property_manager')"

\* 'username' in str(e).lower()
MentionsUsername(msg) == msg = UNIQUE_USERNAME

\* 'email' in str(e).lower()
MentionsEmail(msg) == msg = UNIQUE_EMAIL

\* The IntegrityError of INSERT INTO users.  The UNIQUE columns compare
\* byte for byte (BINARY collation).  SQLite checks the index of the column
\* declared last first, so a row that collides on both columns reports
\* users.email.
UsersInsertError(rows, username, email) ==
    IF \E u \in rows : u.email = email THEN UNIQUE_EMAIL
    ELSE IF \E u \in rows : u.username = username THEN UNIQUE_USERNAME
    ELSE NoError

\* create_user: the tables it leaves, its error (NoError if none) and the
\* id it returns
create_user(rows, next_id, username, email, password, role, full_name, salt) ==
    LET Fail(msg) == [users |-> rows, next_user_id |-> next_id,
                      error |-> msg, value |-> None]
    IN  IF username = <<>> \/ Len(Strip(username)) < MinUsernameLen
        THEN Fail("Username must be at least 3 characters")
        ELSE IF email = <<>> \/ ~Contains(email, "@")
        THEN Fail("Valid email address is required")
        ELSE IF password = <<>> \/ Len(password) < MinPasswordLen
        THEN Fail("Password must be at least 8 characters")
        ELSE IF role \notin Roles
        THEN Fail("Invalid role. Must be admin, resident, or property_manager")
        ELSE LET u   == Lower(Strip(username))
                 e   == Lower(Strip(email))
                 err == UsersInsertError(rows, u, e)
             IN  IF err = NoError
                 THEN [users |-> rows \cup
                          {UserRow(next_id, u, e,
                                   generate_password_hash(password, salt),
                                   role, full_name)},
                       next_user_id |-> next_id + 1,
                       error |-> NoError, value |-> Some(next_id)]
                 ELSE IF MentionsUsername(err) THEN Fail("Username already exists")
                 ELSE IF MentionsEmail(err) THEN Fail("Email already exists")
                 ELSE Fail("User creation failed")

\* a lookup that compares the username as given
get_user_by_username_exact(rows, username) ==
    LET found == {u \in rows : u.username = username}
    IN  IF found = {} THEN None ELSE Some(CHOOSE u \in found : TRUE)

\* get_user_by_username: the row as an Optional
get_user_by_username(rows, username) ==
    LET found == {u \in rows : u.username = Lower(Strip(username))}
    IN  IF found = {} THEN None ELSE Some(CHOOSE u \in found : TRUE)

\* verify_user_password at time t
verify_user_password(rows, username, password, t) ==
    IF username = <<>> \/ password = <<>>
    THEN [users |-> rows, error |-> "Username and password are required",
          value |-> None]
    ELSE LET user == get_user_by_username(rows, username)
         IN  IF user # None /\ check_password_hash(user[1].password_hash, password)
             THEN [users |-> (rows \ {user[1]}) \cup
                             {[user[1] EXCEPT !.last_login = Some(t)]},
                   error |-> NoError, value |-> user]
             ELSE [users |-> rows, error |-> NoError, value |-> None]

allowed_fields == {"email", "full_name", "role", "is_active", "password_hash"}

\* a dict is a sequence of <<key, value>> items
Keys(data) == {data[i][1] : i \in 1..Len(data)}

ValueOf(data, k) == data[CHOOSE i \in 1..Len(data) : data[i][1] = k][2]

\* the row after UPDATE users SET field = ? for the allowed fields of data
UpdatedRow(row, data) ==
    [f \in DOMAIN row |->
        IF f \in Keys(data) \cap allowed_fields THEN ValueOf(data, f) ELSE row[f]]

\* an UPDATE on a table without the CHECK constraint
UsersUpdateError_unique_only(rows, old, new) ==
    IF \E u \in rows \ {old} : u.email = new.email THEN UNIQUE_EMAIL
    ELSE NoError

\* the IntegrityError of UPDATE users, if any: the CHECK constraint is
\* tested before the UNIQUE index
UsersUpdateError(rows, old, new) ==
    IF new.role \notin Roles THEN CHECK_ROLE
    ELSE IF \E u \in rows \ {old} : u.email = new.email THEN UNIQUE_EMAIL
    ELSE NoError

\* an update that writes the fields one statement at a time: the fields
\* other than email are kept when the email is refused
update_user_partial(rows, user_id, data) ==
    LET Fail(msg) == [users |-> rows, error |-> msg, value |-> None]
    IN  IF user_id < 1 THEN Fail("User ID must be a positive integer")
        ELSE IF data = <<>> THEN Fail("Data must be a non-empty dictionary")
        ELSE IF Keys(data) \cap allowed_fields = {}
        THEN Fail("No valid fields to update")
        ELSE LET hit == {u \in rows : u.id = user_id}
             IN  IF hit = {}
                 THEN [users |-> rows, error |-> NoError, value |-> Some(FALSE)]
                 ELSE LET old == CHOOSE u \in hit : TRUE
                          new == UpdatedRow(old, data)
                      IN  IF UsersUpdateError(rows, old, new) # NoError
                          THEN [users |-> (rows \ {old}) \cup
                                   {[new EXCEPT !.email = old.email,
                                                !.role = old.role]},
                                error |-> "Update failed: Email may already exist",
                                value |-> None]
                          ELSE [users |-> (rows \ {old}) \cup {new},
                                error |-> NoError, value |-> Some(TRUE)]

\* update_user: value is the returned boolean (rowcount > 0)
update_user(rows, user_id, data) ==
    LET Fail(msg) == [users |-> rows, error |-> msg, value |-> None]
    IN  IF user_id < 1 THEN Fail("User ID must be a positive integer")
        ELSE IF data = <<>> THEN Fail("Data must be a non-empty dictionary")
        ELSE IF Keys(data) \cap allowed_fields = {}
        THEN Fail("No valid fields to update")
        ELSE LET hit == {u \in rows : u.id = user_id}
             IN  IF hit = {}
                 THEN [users |-> rows, error |-> NoError, value |-> Some(FALSE)]
                 ELSE LET old == CHOOSE u \in hit : TRUE
                          new == UpdatedRow(old, data)
                      IN  IF UsersUpdateError(rows, old, new) # NoError
                          THEN Fail("Update failed: Email may already exist")
                          ELSE [users |-> (rows \ {old}) \cup {new},
                                error |-> NoError, value |-> Some(TRUE)]

\* an update_user_password without the length check
update_user_password_any_length(rows, user_id, new_password, salt) ==
    IF user_id < 1
    THEN [users |-> rows, error |-> "User ID must be a positive integer",
          value |-> None]
    ELSE update_user(rows, user_id,
             <<<<"password_hash", generate_password_hash(new_password, salt)>>>>)

\* update_user_password
update_user_password(rows, user_id, new_password, salt) ==
    IF user_id < 1
    THEN [users |-> rows, error |-> "User ID must be a positive integer",
          value |-> None]
    ELSE IF new_password = <<>> \/ Len(new_password) < MinPasswordLen
    THEN [users |-> rows, error |-> "Password must be at least 8 characters",
          value |-> None]
    ELSE update_user(rows, user_id,
             <<<<"password_hash", generate_password_hash(new_password, salt)>>>>)

\* delete_user: DELETE FROM users WHERE id = ?.  get_connection opens the
\* connection without PRAGMA foreign_keys = ON, so SQLite does not enforce
\* the FOREIGN KEY clauses of the schema and ON DELETE CASCADE does not run:
\* the statement touches the users table only.
delete_user(rows, user_id) ==
    IF user_id < 1
    THEN [users |-> rows, error |-> "User ID must be a positive integer",
          value |-> None]
    ELSE [users |-> {u \in rows : u.id # user_id}, error |-> NoError,
          value |-> Some(\E u \in rows : u.id = user_id)]

\* create_property
create_property(props, next_id, name, created_by, address) ==
    IF name = <<>> \/ Len(Strip(name)) < 1
    THEN [properties |-> props, next_property_id |-> next_id,
          error |-> "Property name is required", value |-> None]
    ELSE IF created_by < 1
    THEN [properties |-> props, next_property_id |-> next_id,
          error |-> "Valid creator user ID is required", value |-> None]
    ELSE [properties |-> props \cup
              {[id |-> next_id, name |-> Strip(name), address |-> address,
                created_by |-> created_by]},
          next_property_id |-> next_id + 1,
          error |-> NoError, value |-> Some(next_id)]

\* an assignment that inserts without looking for the pair
assign_user_to_property_insert_only(ups, user_id, property_id, relationship_type) ==
    IF user_id < 1
    THEN [user_properties |-> ups, error |-> "User ID must be a positive integer",
          value |-> None]
    ELSE IF property_id < 1
    THEN [user_properties |-> ups,
          error |-> "Property ID must be a positive integer", value |-> None]
    ELSE IF relationship_type \notin RelationshipTypes
    THEN [user_properties |-> ups, error |-> "Invalid relationship type",
          value |-> None]
    ELSE [user_properties |-> ups \cup
             {[user_id |-> user_id, property_id |-> property_id,
               relationship_type |-> relationship_type]},
          error |-> NoError, value |-> Some(TRUE)]

\* assign_user_to_property: INSERT, and UPDATE on the PRIMARY KEY conflict
assign_user_to_property(ups, user_id, property_id, relationship_type) ==
    IF user_id < 1
    THEN [user_properties |-> ups, error |-> "User ID must be a positive integer",
          value |-> None]
    ELSE IF property_id < 1
    THEN [user_properties |-> ups,
          error |-> "Property ID must be a positive integer", value |-> None]
    ELSE IF relationship_type \notin RelationshipTypes
    THEN [user_properties |-> ups, error |-> "Invalid relationship type",
          value |-> None]
    ELSE LET same == {r \in ups : r.user_id = user_id /\ r.property_id = property_id}
             row  == [user_id |-> user_id, property_id |-> property_id,
                      relationship_type |-> relationship_type]
         IN  [user_properties |-> (ups \ same) \cup {row},
              error |-> NoError, value |-> Some(TRUE)]

---------------------------------------------------------------------------
(* Database: sightings *)

\* data.get(k, default)
Get(data, k, default) == IF k \in Keys(data) THEN ValueOf(data, k) ELSE default

\* SQLite's INTEGER is a signed 64-bit integer.  The non-negative ones are
\* written here as three limbs of 21 bits, <<a, b, c>> for
\* a * 2^42 + b * 2^21 + c, most significant first.
Limb == 2097152

Int64(n) == <<0, 0, n>>

Int64Max == <<Limb - 1, Limb - 1, Limb - 1>>

Int64Less(x, y) ==
    \/ x[1] < y[1]
    \/ x[1] = y[1] /\ x[2] < y[2]
    \/ x[1] = y[1] /\ x[2] = y[2] /\ x[3] < y[3]

\* the sum in unbounded arithmetic, and whether it still fits 64 bits
Int64Add(x, y) ==
    LET c == x[3] + y[3]
        b == x[2] + y[2] + (c \div Limb)
        a == x[1] + y[1] + (b \div Limb)
    IN  [overflow |-> a >= Limb, value |-> <<a % Limb, b % Limb, c % Limb>>]

\* a row of sightings; the columns that the methods only pass through
\* (room_type, roach_type, photo_path, notes, weather, temperature, user_id,
\* property_id) are left out
SightingRow(id, timestamp, location, roach_count, roach_size, time_of_day) ==
    [id |-> id, timestamp |-> timestamp, location |-> location,
     roach_count |-> roach_count, roach_size |-> roach_size,
     time_of_day |-> time_of_day]

NOT_NULL_TIMESTAMP == "NOT NULL constraint failed: sightings.timestamp"

\* the checks that create_sighting and update_sighting make on data: the
\* message of the ValueError, NoError if none.  `not data['location']` is
\* true of the empty string only.
SightingDataError(data) ==
    IF data = <<>> THEN "Data must be a non-empty dictionary"
    ELSE IF "location" \notin Keys(data) \/ ValueOf(data, "location") = <<>>
    THEN "Location is required"
    ELSE IF Int64Less(Get(data, "roach_count", Int64(1)), Int64(1))
    THEN "Roach count must be a positive integer"
    ELSE NoError

\* create_sighting at time t: timestamp is an Optional (None is NULL)
create_sighting(rows, next_id, data, t) ==
    LET Fail(msg) == [sightings |-> rows, next_sighting_id |-> next_id,
                      error |-> msg, value |-> None]
        timestamp == Get(data, "timestamp", Some(t))
    IN  IF SightingDataError(data) # NoError THEN Fail(SightingDataError(data))
        ELSE IF timestamp = None THEN Fail(NOT_NULL_TIMESTAMP)
        ELSE [sightings |-> rows \cup
                 {SightingRow(next_id, timestamp,
                              Strip(ValueOf(data, "location")),
                              Get(data, "roach_count", Int64(1)),
                              Get(data, "roach_size", None),
                              Get(data, "time_of_day", None))},
              next_sighting_id |-> next_id + 1,
              error |-> NoError, value |-> Some(next_id)]

\* update_sighting: every column is overwritten from data; a missing
\* timestamp is written as NULL, which the NOT NULL column refuses for a
\* row that the WHERE clause matches
update_sighting(rows, sighting_id, data) ==
    LET Fail(msg) == [sightings |-> rows, error |-> msg, value |-> None]
        hit == {r \in rows : r.id = sighting_id}
        timestamp == Get(data, "timestamp", None)
    IN  IF sighting_id < 1 THEN Fail("Sighting ID must be a positive integer")
        ELSE IF SightingDataError(data) # NoError
        THEN Fail(SightingDataError(data))
        ELSE IF hit = {}
        THEN [sightings |-> rows, error |-> NoError, value |-> Some(FALSE)]
        ELSE IF timestamp = None THEN Fail(NOT_NULL_TIMESTAMP)
        ELSE [sightings |-> (rows \ hit) \cup
                 {SightingRow(sighting_id, timestamp,
                              Strip(ValueOf(data, "location")),
                              Get(data, "roach_count", Int64(1)),
                              Get(data, "roach_size", None),
                              Get(data, "time_of_day", None))},
              error |-> NoError, value |-> Some(TRUE)]

\* delete_sighting
delete_sighting(rows, sighting_id) ==
    IF sighting_id < 1
    THEN [sightings |-> rows, error |-> "Sighting ID must be a positive integer",
          value |-> None]
    ELSE [sightings |-> {r \in rows : r.id # sighting_id}, error |-> NoError,
          value |-> Some(\E r \in rows : r.id = sighting_id)]

\* SELECT IFNULL(SUM(roach_count), 0): SQLite's SUM over integers raises
\* "integer overflow" when the sum leaves the 64-bit range
RECURSIVE SumRoachCount(_)
SumRoachCount(rows) ==
    IF rows = {} THEN [overflow |-> FALSE, value |-> Int64(0)]
    ELSE LET r    == CHOOSE x \in rows : TRUE
             rest == SumRoachCount(rows \ {r})
             add  == Int64Add(rest.value, r.roach_count)
         IN  [overflow |-> rest.overflow \/ add.overflow, value |-> add.value]

\* SELECT key, COUNT(*) ... GROUP BY key: the groups as <<key, count>>
GroupCounts(rows, key) ==
    {<<k, Cardinality({r \in rows : key[r] = k})>> : k \in {key[r] : r \in rows}}

\* ORDER BY count DESC: the listings of the groups with no count before a
\* larger one (the order among equal counts is left to SQLite)
OrderByCountDesc(groups) ==
    {s \in [1..Cardinality(groups) -> groups] :
        /\ \A i, j \in DOMAIN s : i # j => s[i] # s[j]
        /\ \A i, j \in DOMAIN s : i < j => s[i][2] >= s[j][2]}

\* ORDER BY date DESC, the dates being distinct
RECURSIVE OrderByDateDesc(_)
OrderByDateDesc(groups) ==
    IF groups = {} THEN <<>>
    ELSE LET g == CHOOSE x \in groups : \A y \in groups : x[1] >= y[1]
         IN  <<g>> \o OrderByDateDesc(groups \ {g})

SecondsPerDay == 86400

\* DATE(timestamp), as a number of days
Date(timestamp) == timestamp \div SecondsPerDay

\* get_statistics at time t: the results the call can give
get_statistics(rows, t) ==
    LET total == Cardinality(rows)
        sum   == SumRoachCount(rows)
        recent == {r \in rows : r.timestamp[1] >= (Date(t) - 7) * SecondsPerDay}
        sized == {r \in rows : r.roach_size # None}
        timed == {r \in rows : r.time_of_day # None}
        LocationOf == [r \in rows |-> r.location]
        SizeOf     == [r \in sized |-> r.roach_size[1]]
        TimeOf     == [r \in timed |-> r.time_of_day[1]]
        DateOf     == [r \in recent |-> Date(r.timestamp[1])]
    IN  IF sum.overflow
        THEN {[error |-> "integer overflow", value |-> None]}
        ELSE {[error |-> NoError,
               value |-> Some([total_sightings |-> total,
                               total_roaches |-> sum.value,
                               locations |-> locations,
                               sizes |-> sizes,
                               times_of_day |-> times,
                               recent_trend |-> OrderByDateDesc(
                                   GroupCounts(recent, DateOf))])] :
               locations \in OrderByCountDesc(GroupCounts(rows, LocationOf)),
               sizes \in OrderByCountDesc(GroupCounts(sized, SizeOf)),
               times \in OrderByCountDesc(GroupCounts(timed, TimeOf))}

---------------------------------------------------------------------------
(* The login flow *)

\* a check_rate_limit that restarts the lockout of a rejected identifier
check_rate_limit_restarts(att, lck, id, t) ==
    LET r == is_locked_out(att, lck, id, t)
    IN  IF r.ret
        THEN LET g == get_lockout_time_remaining(r.lockouts, id, t)
             IN  [allowed |-> FALSE, remaining |-> g.ret,
                  attempts |-> r.attempts,
                  lockouts |-> DictSet(g.lockouts, id, t + lockout_duration)]
        ELSE [allowed |-> TRUE, remaining |-> None,
              attempts |-> r.attempts, lockouts |-> r.lockouts]

\* check_rate_limit at time t: is_locked_out, then, if locked,
\* get_lockout_time_remaining for the message
check_rate_limit(att, lck, id, t) ==
    LET r == is_locked_out(att, lck, id, t)
    IN  IF r.ret
        THEN LET g == get_lockout_time_remaining(r.lockouts, id, t)
             IN  [allowed |-> FALSE, remaining |-> g.ret,
                  attempts |-> r.attempts, lockouts |-> g.lockouts]
        ELSE [allowed |-> TRUE, remaining |-> None,
              attempts |-> r.attempts, lockouts |-> r.lockouts]

\* record_login_attempt: record_attempt for username.lower(), then for the
\* address
record_login_attempt(att, lck, username, ip_address, success, t) ==
    LET Second(r1) ==
            LET r2 == record_attempt(r1.attempts, r1.lockouts, ip_address,
                                     success, t)
            IN  [attempts |-> r2.attempts, lockouts |-> r2.lockouts,
                 events |-> r1.events \o r2.events]
    IN  CHOOSE r \in {Second(r1) :
                      r1 \in {record_attempt(att, lck, Lower(username), success, t)}} :
            TRUE

\* a gate that checks the username only
LoginGate_username_only(att, lck, username, client_ip, t) ==
    LET c1 == check_rate_limit(att, lck, Lower(username), t)
    IN  [allowed |-> c1.allowed, attempts |-> c1.attempts,
         lockouts |-> c1.lockouts, calls |-> <<"check_rate_limit">>]

\* the two rate-limit checks of login; the second is made only if the
\* first allows
LoginGate(att, lck, username, client_ip, t) ==
    LET Second(c1) ==
            LET c2 == check_rate_limit(c1.attempts, c1.lockouts, client_ip, t)
            IN  IF ~c1.allowed
                THEN [allowed |-> FALSE, attempts |-> c1.attempts,
                      lockouts |-> c1.lockouts, calls |-> <<"check_rate_limit">>]
                ELSE [allowed |-> c2.allowed, attempts |-> c2.attempts,
                      lockouts |-> c2.lockouts,
                      calls |-> <<"check_rate_limit", "check_rate_limit">>]
    IN  CHOOSE r \in {Second(c1) :
                      c1 \in {check_rate_limit(att, lck, Lower(username), t)}} :
            TRUE

\* login (POST) at time t: the maps and the users table it leaves, the
\* calls it makes, the events it passes to log_security_event and how it
\* ends.  verify_user_password is reached only through an allowing gate.
login(att, lck, rows, form_username, password, client_ip, t) ==
    LET username == Strip(form_username)
        Verified(gate, v) ==
            LET ok == record_login_attempt(gate.attempts, gate.lockouts,
                                           username, client_ip, TRUE, t)
                ko == record_login_attempt(gate.attempts, gate.lockouts,
                                           username, client_ip, FALSE, t)
            IN  IF v.value # None /\ v.value[1].is_active = 0
                THEN [attempts |-> gate.attempts, lockouts |-> gate.lockouts,
                      users |-> v.users,
                      calls |-> gate.calls \o <<"verify_user_password">>,
                      events |-> <<AuditEntry(LOGIN_FAILURE, Some(username),
                                              Some(v.value[1].id), "deactivated",
                                              Some(client_ip), FALSE)>>,
                      outcome |-> "deactivated"]
                ELSE IF v.value # None
                THEN [attempts |-> ok.attempts, lockouts |-> ok.lockouts,
                      users |-> v.users,
                      calls |-> gate.calls \o <<"verify_user_password",
                                                "record_login_attempt",
                                                "login_user">>,
                      events |-> ok.events \o
                                 <<AuditEntry(LOGIN_SUCCESS,
                                              Some(v.value[1].username),
                                              Some(v.value[1].id), "success",
                                              Some(client_ip), TRUE)>>,
                      outcome |-> "success"]
                ELSE [attempts |-> ko.attempts, lockouts |-> ko.lockouts,
                      users |-> v.users,
                      calls |-> gate.calls \o <<"verify_user_password",
                                                "record_login_attempt">>,
                      events |-> ko.events \o
                                 <<AuditEntry(LOGIN_FAILURE, Some(username), None,
                                              "Invalid credentials",
                                              Some(client_ip), FALSE)>>,
                      outcome |-> "failure"]
        Gated(gate) ==
            IF ~gate.allowed
            THEN [attempts |-> gate.attempts, lockouts |-> gate.lockouts,
                  users |-> rows, calls |-> gate.calls, events |-> <<>>,
                  outcome |-> "locked"]
            ELSE CHOOSE r \in {Verified(gate, v) :
                               v \in {verify_user_password(rows, username,
                                                           password, t)}} : TRUE
    IN  IF username = <<>> \/ password = <<>>
        THEN [attempts |-> att, lockouts |-> lck, users |-> rows,
              calls |-> <<>>, events |-> <<>>, outcome |-> "missing"]
        ELSE CHOOSE r \in {Gated(gate) :
                           gate \in {LoginGate(att, lck, username, client_ip, t)}} :
                 TRUE

---------------------------------------------------------------------------
(* Accounts: registration and the admin routes *)

\* get_user_by_id
get_user_by_id(rows, user_id) ==
    LET found == {u \in rows : u.id = user_id}
    IN  IF user_id < 1
        THEN [error |-> "User ID must be a positive integer", value |-> None]
        ELSE [error |-> NoError,
              value |-> IF found = {} THEN None
                        ELSE Some(CHOOSE u \in found : TRUE)]

\* a load_user that does not look at is_active
load_user_any(rows, session) ==
    IF session = None \/ get_user_by_id(rows, session[1]).error # NoError
    THEN None
    ELSE get_user_by_id(rows, session[1]).value

\* load_user: the user of a session cookie (an Optional user id), if the
\* row exists and is active
load_user(rows, session) ==
    IF session = None \/ get_user_by_id(rows, session[1]).error # NoError
    THEN None
    ELSE LET user_data == get_user_by_id(rows, session[1]).value
         IN  IF user_data # None /\ user_data[1].is_active # 0
             THEN user_data ELSE None

\* admin_required: "ok" lets the view run
admin_required(rows, session) ==
    LET current_user == load_user(rows, session)
    IN  IF current_user = None THEN "login"
        ELSE IF current_user[1].role # "admin" THEN "forbidden"
        ELSE "ok"

\* a register that takes the role from the submitted form
register_role_from_form(rows, next_id, session, form, client_ip, salt) ==
    LET username == Strip(form.username)
        email    == Strip(form.email)
        r == create_user(rows, next_id, username, email, form.password,
                         IF form.role = None THEN "resident"
                         ELSE form.role[1], None, salt)
        Done(outcome) == [users |-> rows, next_user_id |-> next_id,
                          events |-> <<>>, outcome |-> outcome, value |-> None]
    IN  IF load_user(rows, session) # None THEN Done("redirect")
        ELSE IF username = <<>> \/ email = <<>> \/ form.password = <<>>
        THEN Done("missing")
        ELSE IF form.password # form.password_confirm THEN Done("mismatch")
        ELSE IF r.error = NoError
        THEN [users |-> r.users, next_user_id |-> r.next_user_id,
              events |-> <<AuditEntry(REGISTRATION, Some(username), r.value,
                                      "New user registered", Some(client_ip),
                                      TRUE)>>,
              outcome |-> "registered", value |-> r.value]
        ELSE [users |-> rows, next_user_id |-> next_id,
              events |-> <<AuditEntry(REGISTRATION, Some(username), None,
                                      r.error, Some(client_ip), FALSE)>>,
              outcome |-> "invalid", value |-> None]

\* register (POST): form is a record of the submitted fields
register(rows, next_id, session, form, client_ip, salt) ==
    LET username == Strip(form.username)
        email    == Strip(form.email)
        r == create_user(rows, next_id, username, email, form.password,
                         "resident", None, salt)
        Done(outcome) == [users |-> rows, next_user_id |-> next_id,
                          events |-> <<>>, outcome |-> outcome, value |-> None]
    IN  IF load_user(rows, session) # None THEN Done("redirect")
        ELSE IF username = <<>> \/ email = <<>> \/ form.password = <<>>
        THEN Done("missing")
        ELSE IF form.password # form.password_confirm THEN Done("mismatch")
        ELSE IF r.error = NoError
        THEN [users |-> r.users, next_user_id |-> r.next_user_id,
              events |-> <<AuditEntry(REGISTRATION, Some(username), r.value,
                                      "New user registered", Some(client_ip),
                                      TRUE)>>,
              outcome |-> "registered", value |-> r.value]
        ELSE [users |-> rows, next_user_id |-> next_id,
              events |-> <<AuditEntry(REGISTRATION, Some(username), None,
                                      r.error, Some(client_ip), FALSE)>>,
              outcome |-> "invalid", value |-> None]

\* admin_create_user (POST): the role is taken from the form
admin_create_user(rows, next_id, session, form, salt) ==
    LET username == Strip(form.username)
        email    == Strip(form.email)
        role     == IF form.role = None THEN "resident" ELSE form.role[1]
        r == create_user(rows, next_id, username, email, form.password, role,
                         None, salt)
        Done(outcome) == [users |-> rows, next_user_id |-> next_id,
                          events |-> <<>>, outcome |-> outcome, value |-> None]
    IN  IF admin_required(rows, session) # "ok"
        THEN Done(admin_required(rows, session))
        ELSE IF username = <<>> \/ email = <<>> \/ form.password = <<>>
        THEN Done("missing")
        ELSE IF r.error = NoError
        THEN [users |-> r.users, next_user_id |-> r.next_user_id,
              events |-> <<>>, outcome |-> "created", value |-> r.value]
        ELSE Done("invalid")

\* admin_toggle_user_active (POST); no call of log_security_event is made
admin_toggle_user_active(rows, session, user_id) ==
    LET g == get_user_by_id(rows, user_id)
        new_status == IF g.value[1].is_active # 0 THEN 0 ELSE 1
        Done(outcome) == [users |-> rows, events |-> <<>>, outcome |-> outcome]
    IN  IF admin_required(rows, session) # "ok"
        THEN Done(admin_required(rows, session))
        ELSE IF g.error # NoError THEN Done("error")
        ELSE IF g.value = None THEN Done("not_found")
        ELSE IF user_id = load_user(rows, session)[1].id THEN Done("self")
        ELSE LET r == update_user(rows, user_id, <<<<"is_active", new_status>>>>)
             IN  IF r.error # NoError THEN Done("error")
                 ELSE [users |-> r.users, events |-> <<>>,
                       outcome |-> IF new_status = 1 THEN "activated"
                                   ELSE "deactivated"]

\* admin_delete_user (POST); no call of log_security_event is made
admin_delete_user(rows, session, user_id) ==
    LET g == get_user_by_id(rows, user_id)
        Done(outcome) == [users |-> rows, events |-> <<>>, outcome |-> outcome]
    IN  IF admin_required(rows, session) # "ok"
        THEN Done(admin_required(rows, session))
        ELSE IF g.error # NoError THEN Done("error")
        ELSE IF g.value = None THEN Done("not_found")
        ELSE IF user_id = load_user(rows, session)[1].id THEN Done("self")
        ELSE [users |-> delete_user(rows, user_id).users, events |-> <<>>,
              outcome |-> "deleted"]

---------------------------------------------------------------------------
(* Initial state: a fresh process on an empty database *)

NoThreads == [t \in {} |-> 0]

InitBase ==
    /\ now = 0
    /\ attempts = [id \in Identifiers |-> <<>>]
    /\ lockouts = [id \in {} |-> 0]
    /\ users = {}
    /\ next_user_id = 1
    /\ properties = {}
    /\ next_property_id = 1
    /\ user_properties = {}
    /\ audit_log = <<>>
    /\ sightings = {}
    /\ next_sighting_id = 1
    /\ passwords = [id \in {} |-> <<>>]
    /\ ret = [op |-> "init"]
    /\ pc = NoThreads
    /\ loc = NoThreads
    /\ obs = [id \in Identifiers |->
                [fails |-> <<>>, fifth |-> None, succ |-> FALSE, recent |-> <<>>,
                 calls |-> 0]]

\* the wall clock advances
Tick ==
    /\ now + TickStep <= MaxTime
    /\ now' = now + TickStep
    /\ ret' = [op |-> "tick"]
    /\ UNCHANGED <<sg_vars, passwords, rl_vars, db_vars, audit_log, th_vars,
                   obs>>

---------------------------------------------------------------------------
(* The rate limiter called directly, one call per step *)

\* identifiers the direct calls are made for
RLIds == {Bob}

AppendAll(log, events, stored) ==
    IF events = <<>> THEN log ELSE log_security_event(log, events[1], stored)

\* History of the calls, kept beside the program's state.  For each
\* identifier: fails, the times of the failed record_attempt calls since its
\* last success or the end of its last lockout (the latest max_attempts of
\* them); fifth, the time of the latest failed call that was the 5th within
\* the window, until a success or the first is_locked_out call at or after
\* fifth + lockout_duration; succ, whether a successful call was ever made;
\* recent, the times of the latest max_attempts failed calls, never reset;
\* calls, the number of calls the concurrent threads have started.
LastN(s, n) == IF Len(s) > n THEN SubSeq(s, Len(s) - n + 1, Len(s)) ELSE s

IsFifth(fails, t) ==
    Len(fails) = max_attempts /\ fails[1] > t - window_seconds

ObsRecord(o, success, t) ==
    IF success
    THEN [o EXCEPT !.fails = <<>>, !.fifth = None, !.succ = TRUE]
    ELSE LET f == LastN(Append(o.fails, t), max_attempts)
         IN  [o EXCEPT !.fails = f,
                       !.fifth = IF IsFifth(f, t) THEN Some(t) ELSE o.fifth,
                       !.recent = LastN(Append(o.recent, t), max_attempts)]

ObsPoll(o, t) ==
    IF o.fifth # None /\ t >= o.fifth[1] + lockout_duration
    THEN [o EXCEPT !.fails = <<>>, !.fifth = None]
    ELSE o

RecordAttempt(id, success, stored) ==
    LET r == record_attempt(attempts, lockouts, id, success, now)
    IN  /\ Len(attempts[id]) < MaxAttemptsLen
        /\ Len(AppendAll(audit_log, r.events, stored)) <= MaxAudit
        /\ attempts' = r.attempts
        /\ lockouts' = r.lockouts
        /\ audit_log' = AppendAll(audit_log, r.events, stored)
        /\ obs' = [obs EXCEPT ![id] = ObsRecord(@, success, now)]
        /\ ret' = [op |-> "record_attempt", id |-> id, success |-> success,
                   at |-> now, locked |-> r.events # <<>>,
                   was_locked |-> id \in DOMAIN lockouts,
                   had |-> Len(attempts[id]), events |-> r.events]
        /\ UNCHANGED <<sg_vars, passwords, now, db_vars, th_vars>>

IsLockedOut(id) ==
    LET r == is_locked_out(attempts, lockouts, id, now)
    IN  /\ attempts' = r.attempts
        /\ lockouts' = r.lockouts
        /\ obs' = [obs EXCEPT ![id] = ObsPoll(@, now)]
        /\ ret' = [op |-> "is_locked_out", id |-> id, at |-> now,
                   value |-> r.ret, fifth |-> obs[id].fifth]
        /\ UNCHANGED <<sg_vars, passwords, now, db_vars, audit_log, th_vars>>

GetLockoutTimeRemaining(id) ==
    LET r == get_lockout_time_remaining(lockouts, id, now)
    IN  /\ lockouts' = r.lockouts
        /\ ret' = [op |-> "get_lockout_time_remaining", id |-> id, at |-> now,
                   value |-> r.ret]
        /\ UNCHANGED <<sg_vars, passwords, now, attempts, db_vars, audit_log,
                       th_vars, obs>>

GetRemainingAttempts(id) ==
    LET r == get_remaining_attempts(attempts, id, now)
    IN  /\ attempts' = r.attempts
        /\ ret' = [op |-> "get_remaining_attempts", id |-> id, at |-> now,
                   value |-> r.ret]
        /\ UNCHANGED <<sg_vars, passwords, now, lockouts, db_vars, audit_log,
                       th_vars, obs>>

NextRL ==
    \/ Tick
    \/ \E id \in RLIds, success \in BOOLEAN, stored \in BOOLEAN :
          RecordAttempt(id, success, stored)
    \/ \E id \in RLIds : IsLockedOut(id)
    \/ \E id \in RLIds : GetLockoutTimeRemaining(id)
    \/ \E id \in RLIds : GetRemainingAttempts(id)

SpecRL == InitBase /\ [][NextRL]_vars

\* the same calls without get_lockout_time_remaining
NextRLCore ==
    \/ Tick
    \/ \E id \in RLIds, success \in BOOLEAN, stored \in BOOLEAN :
          RecordAttempt(id, success, stored)
    \/ \E id \in RLIds : IsLockedOut(id)
    \/ \E id \in RLIds : GetRemainingAttempts(id)

SpecRLCore == InitBase /\ [][NextRLCore]_vars

---------------------------------------------------------------------------
(* The Database called directly, one call per step *)

\* creations of users and of properties a run may make
MaxUsers == 2

MaxProperties == 1

\* <<username, email, password, role>> of the create_user calls
CreateInputs ==
    { <<Bob, EmailB, Pw1, "resident">>,
      <<BobCap, EmailBCap, Pw1, "admin">>,
      <<BobCap, EmailE, Pw1, "resident">>,
      <<Eve, EmailBCap, Pw1, "resident">>,
      <<Eve, EmailE, Pw1, "resident">>,
      <<Al, EmailE, Pw1, "resident">>,
      <<Eve, EmailBad, Pw1, "resident">>,
      <<Eve, EmailE, PwShort, "resident">>,
      <<Eve, EmailE, Pw1, "root">> }

PasswordInputs == {Pw2, PwShort}

Salts == {"s1"}

UserIdInputs == 0..MaxUsers

\* <<user_id, data>> of the update_user calls
UpdateInputs ==
    { <<2, <<<<"email", EmailB>>>>                          >>,
      <<2, <<<<"email", EmailBUp>>>>                        >>,
      <<1, <<<<"is_active", 0>>>>                           >>,
      <<1, <<<<"is_active", 1>>>>                           >>,
      <<1, <<<<"role", "root">>>>                           >>,
      <<1, <<<<"role", "property_manager">>>>               >>,
      <<1, <<<<"username", Eve>>>>                          >>,
      <<1, <<<<"username", Eve>>, <<"is_active", 0>>>>      >>,
      <<2, <<<<"is_active", 0>>, <<"email", EmailB>>>>      >>,
      <<1, <<>>                                             >>,
      <<0, <<<<"is_active", 0>>>>                           >> }

\* <<user_id, property_id, relationship_type>> of the assignments
AssignInputs ==
    { <<1, 1, "owner">>, <<1, 1, "resident">>, <<2, 1, "owner">>,
      <<0, 1, "owner">>, <<1, 0, "owner">>, <<1, 1, "tenant">> }

CreateUser(username, email, password, role, full_name, salt) ==
    LET r == create_user(users, next_user_id, username, email, password, role,
                         full_name, salt)
    IN  /\ next_user_id <= MaxUsers
        /\ users' = r.users
        /\ next_user_id' = r.next_user_id
        /\ ret' = [op |-> "create_user", username |-> username, email |-> email,
                   password |-> password, role |-> role,
                   error |-> r.error, value |-> r.value, before |-> users,
                   assoc_before |-> user_properties]
        /\ passwords' = IF r.value # None
                        THEN DictSet(passwords, r.value[1], password)
                        ELSE passwords
        /\ UNCHANGED <<sg_vars, now, rl_vars, properties,
                       next_property_id,
                       user_properties, audit_log, th_vars, obs>>

UpdateUser(user_id, data) ==
    LET r == update_user(users, user_id, data)
    IN  /\ users' = r.users
        /\ ret' = [op |-> "update_user", user_id |-> user_id, data |-> data,
                   error |-> r.error, value |-> r.value, before |-> users,
                   assoc_before |-> user_properties]
        /\ UNCHANGED <<sg_vars, passwords, now, rl_vars, next_user_id,
                       properties, next_property_id,
                       user_properties, audit_log, th_vars, obs>>

UpdateUserPassword(user_id, new_password, salt) ==
    LET r == update_user_password(users, user_id, new_password, salt)
    IN  /\ users' = r.users
        /\ ret' = [op |-> "update_user_password", user_id |-> user_id,
                   password |-> new_password,
                   error |-> r.error, value |-> r.value, before |-> users,
                   assoc_before |-> user_properties]
        /\ passwords' = IF r.value = Some(TRUE)
                        THEN DictSet(passwords, user_id, new_password)
                        ELSE passwords
        /\ UNCHANGED <<sg_vars, now, rl_vars, next_user_id,
                       properties, next_property_id,
                       user_properties, audit_log, th_vars, obs>>

DeleteUser(user_id) ==
    LET r == delete_user(users, user_id)
    IN  /\ users' = r.users
        /\ ret' = [op |-> "delete_user", user_id |-> user_id,
                   error |-> r.error, value |-> r.value, before |-> users,
                   assoc_before |-> user_properties]
        /\ UNCHANGED <<sg_vars, passwords, now, rl_vars, next_user_id,
                       properties, next_property_id,
                       user_properties, audit_log, th_vars, obs>>

CreateProperty(name, created_by, address) ==
    LET r == create_property(properties, next_property_id, name, created_by,
                             address)
    IN  /\ next_property_id <= MaxProperties
        /\ properties' = r.properties
        /\ next_property_id' = r.next_property_id
        /\ ret' = [op |-> "create_property", error |-> r.error,
                   value |-> r.value, before |-> users,
                   assoc_before |-> user_properties]
        /\ UNCHANGED <<sg_vars, passwords, now, rl_vars, users, next_user_id,
                       user_properties,
                       audit_log, th_vars, obs>>

AssignUserToProperty(user_id, property_id, relationship_type) ==
    LET r == assign_user_to_property(user_properties, user_id, property_id,
                                     relationship_type)
    IN  /\ user_properties' = r.user_properties
        /\ ret' = [op |-> "assign_user_to_property", user_id |-> user_id,
                   property_id |-> property_id,
                   relationship_type |-> relationship_type,
                   error |-> r.error, value |-> r.value, before |-> users,
                   assoc_before |-> user_properties]
        /\ UNCHANGED <<sg_vars, passwords, now, rl_vars, users, next_user_id,
                       properties,
                       next_property_id, audit_log, th_vars, obs>>

NextDB ==
    \/ \E c \in CreateInputs, salt \in Salts :
          CreateUser(c[1], c[2], c[3], c[4], None, salt)
    \/ \E u \in UpdateInputs : UpdateUser(u[1], u[2])
    \/ \E user_id \in {0, 1}, password \in PasswordInputs, salt \in Salts :
          UpdateUserPassword(user_id, password, salt)
    \/ \E user_id \in UserIdInputs : DeleteUser(user_id)
    \/ \E created_by \in {0, 1} : CreateProperty(<<"h">>, created_by, None)
    \/ \E a \in AssignInputs : AssignUserToProperty(a[1], a[2], a[3])

SpecDB == InitBase /\ [][NextDB]_vars

---------------------------------------------------------------------------
(* The sightings methods called directly, one call per step *)

MaxSightings == 2

Kitchen == <<"K", "i", "t">>

KitchenPad == <<" ", "K", "i", "t">>

Blank == <<" ", " ">>

Hall == <<"h", "a", "l", "l">>

\* the data dicts of the create_sighting and update_sighting calls
SightingInputs ==
    { <<<<"location", Kitchen>>, <<"roach_count", Int64(2)>>,
        <<"timestamp", Some(5)>>>>,
      <<<<"location", KitchenPad>>>>,
      <<<<"location", Blank>>, <<"timestamp", Some(5)>>>>,
      <<<<"location", <<>>>>, <<"roach_count", Int64(1)>>>>,
      <<<<"location", Kitchen>>, <<"roach_count", Int64(0)>>,
        <<"timestamp", Some(5)>>>>,
      <<<<"roach_count", Int64(1)>>>>,
      <<>>,
      <<<<"location", Hall>>, <<"roach_count", Int64Max>>,
        <<"timestamp", Some(5)>>, <<"roach_size", Some("large")>>,
        <<"time_of_day", Some("night")>>>> }

SightingIdInputs == 0..MaxSightings

CreateSighting(data) ==
    LET r == create_sighting(sightings, next_sighting_id, data, now)
    IN  /\ next_sighting_id <= MaxSightings
        /\ sightings' = r.sightings
        /\ next_sighting_id' = r.next_sighting_id
        /\ ret' = [op |-> "create_sighting", data |-> data, error |-> r.error,
                   value |-> r.value, before |-> users,
                   assoc_before |-> user_properties,
                   sightings_before |-> sightings]
        /\ UNCHANGED <<now, rl_vars, db_vars, audit_log, th_vars, obs, passwords>>

UpdateSighting(sighting_id, data) ==
    LET r == update_sighting(sightings, sighting_id, data)
    IN  /\ sightings' = r.sightings
        /\ ret' = [op |-> "update_sighting", sighting_id |-> sighting_id,
                   data |-> data, error |-> r.error, value |-> r.value,
                   before |-> users, assoc_before |-> user_properties,
                   sightings_before |-> sightings]
        /\ UNCHANGED <<now, rl_vars, db_vars, audit_log, th_vars, obs, passwords,
                       next_sighting_id>>

DeleteSighting(sighting_id) ==
    LET r == delete_sighting(sightings, sighting_id)
    IN  /\ sightings' = r.sightings
        /\ ret' = [op |-> "delete_sighting", sighting_id |-> sighting_id,
                   error |-> r.error, value |-> r.value,
                   before |-> users, assoc_before |-> user_properties,
                   sightings_before |-> sightings]
        /\ UNCHANGED <<now, rl_vars, db_vars, audit_log, th_vars, obs, passwords,
                       next_sighting_id>>

GetStatistics ==
    \E r \in get_statistics(sightings, now) :
        /\ ret' = [op |-> "get_statistics", error |-> r.error,
                   value |-> r.value, before |-> users,
                   assoc_before |-> user_properties,
                   sightings_before |-> sightings]
        /\ UNCHANGED <<sg_vars, now, rl_vars, db_vars, audit_log, th_vars, obs,
                       passwords>>

NextSightings ==
    \/ GetStatistics
    \/ \E data \in SightingInputs : CreateSighting(data)
    \/ \E sighting_id \in SightingIdInputs, data \in SightingInputs :
          UpdateSighting(sighting_id, data)
    \/ \E sighting_id \in SightingIdInputs : DeleteSighting(sighting_id)

SpecSightings == InitBase /\ [][NextSightings]_vars

---------------------------------------------------------------------------
(* The whole store.  The methods of the users / properties /               *)
(* user_properties tables do not read or write the sightings table, and    *)
(* the sighting methods touch no other table (no foreign key is enforced), *)
(* so the calls are explored on one family of tables at a time.            *)

NextStore ==
    \/ sightings = {} /\ next_sighting_id = 1 /\ NextDB
    \/ users = {} /\ next_user_id = 1 /\ properties = {} /\ user_properties = {}
       /\ NextSightings

SpecStore == InitBase /\ [][NextStore]_vars

---------------------------------------------------------------------------
(* Credentials: accounts are created, their passwords changed and verified *)

\* <<username, email, password, role>> of the create_user calls
CredCreateInputs ==
    { <<BobCap, EmailB, Pw1, "resident">>, <<Eve, EmailE, Pw2, "resident">> }

VerifyUsernames == {Bob, BobCap, Eve, Blank, <<>>}

VerifyPasswords == {Pw1, Pw2, <<>>}

VerifyUserPassword(username, password) ==
    LET r == verify_user_password(users, username, password, now)
    IN  /\ users' = r.users
        /\ ret' = [op |-> "verify_user_password", username |-> username,
                   password |-> password, error |-> r.error, value |-> r.value,
                   before |-> users, assoc_before |-> user_properties]
        /\ UNCHANGED <<sg_vars, passwords, now, rl_vars, next_user_id,
                       properties, next_property_id, user_properties,
                       audit_log, th_vars, obs>>

NextCred ==
    \/ Tick
    \/ \E c \in CredCreateInputs, salt \in Salts :
          CreateUser(c[1], c[2], c[3], c[4], None, salt)
    \/ \E user_id \in {0, 1}, password \in PasswordInputs, salt \in Salts :
          UpdateUserPassword(user_id, password, salt)
    \/ \E username \in VerifyUsernames, password \in VerifyPasswords :
          VerifyUserPassword(username, password)

SpecCred == InitBase /\ [][NextCred]_vars

---------------------------------------------------------------------------
(* Login requests, one request per step, on a database that holds an       *)
(* active account (bob) and a deactivated one (eve)                        *)

LoginUsernames == {BobCap, Eve, Ip2}

LoginPasswords == {Pw1, Pw2}

\* whether the log_security_event calls of a request reach the table: the
\* audit table is writable during the request or it is not
StoredInputs == {<<TRUE, TRUE, TRUE>>, <<FALSE, FALSE, FALSE>>}

\* the process is fresh, or eve has already failed max_attempts - 1 logins
\* from Ip1 at time 0 while the audit table was not writable
InitLogin ==
    /\ now = 0
    /\ \/ attempts = [id \in Identifiers |-> <<>>]
       \/ attempts = [id \in Identifiers |->
                        IF id \in {Eve, Ip1}
                        THEN [i \in 1..(max_attempts - 1) |-> <<0, FALSE>>] ELSE <<>>]
    /\ lockouts = [id \in {} |-> 0]
    /\ users = {UserRow(1, Bob, EmailB, generate_password_hash(Pw1, "s1"),
                        "resident", None),
                [UserRow(2, Eve, EmailE, generate_password_hash(Pw1, "s1"),
                         "resident", None) EXCEPT !.is_active = 0]}
    /\ next_user_id = 3
    /\ properties = {}
    /\ next_property_id = 1
    /\ user_properties = {}
    /\ audit_log = <<>>
    /\ sightings = {}
    /\ next_sighting_id = 1
    /\ passwords = [id \in {1, 2} |-> Pw1]
    /\ ret = [op |-> "init"]
    /\ pc = NoThreads
    /\ loc = NoThreads
    /\ obs = [id \in Identifiers |->
                [fails |-> <<>>, fifth |-> None, succ |-> FALSE, recent |-> <<>>,
                 calls |-> 0]]

RECURSIVE StoreEvents(_, _, _)
StoreEvents(log, events, stored) ==
    IF events = <<>> THEN log
    ELSE StoreEvents(log_security_event(log, Head(events), Head(stored)),
                     Tail(events), Tail(stored))

Locked(lck, id, t) == id \in DOMAIN lck /\ t < lck[id]

Range(seq) == {seq[i] : i \in 1..Len(seq)}

Login(form_username, password, client_ip, stored) ==
    /\ obs[Ip1].calls + obs[Ip2].calls < MaxLogins
    /\ \E r \in {login(attempts, lockouts, users, form_username, password,
                       client_ip, now)},
          user \in {get_user_by_username(users, Strip(form_username))} :
        /\ Len(StoreEvents(audit_log, r.events, stored)) <= MaxAudit
        /\ \A id \in {Lower(Strip(form_username)), client_ip} :
              Len(attempts[id]) < MaxAttemptsLen
        /\ attempts' = r.attempts
        /\ lockouts' = r.lockouts
        /\ users' = r.users
        /\ audit_log' = StoreEvents(audit_log, r.events, stored)
        /\ ret' = [op |-> "login", username |-> form_username,
                   password |-> password, ip |-> client_ip, at |-> now,
                   raised |-> \E k \in 1..Len(r.events) :
                                 log_security_event_raises(stored[k]),
                   outcome |-> IF \E k \in 1..Len(r.events) :
                                     log_security_event_raises(stored[k])
                               THEN "error" ELSE r.outcome,
                   calls |-> r.calls,
                   events |-> r.events,
                   user_locked |-> Locked(lockouts, Lower(Strip(form_username)), now),
                   ip_locked |-> Locked(lockouts, client_ip, now),
                   creds_ok |-> /\ user # None
                                /\ check_password_hash(user[1].password_hash, password)]
        /\ obs' = [obs EXCEPT ![client_ip].calls = @ + 1]
        /\ UNCHANGED <<sg_vars, passwords, now, next_user_id, properties,
                       next_property_id,
                       user_properties, th_vars>>

LoginTick ==
    /\ now + LoginTickStep <= MaxTime
    /\ now' = now + LoginTickStep
    /\ ret' = [op |-> "tick"]
    /\ UNCHANGED <<sg_vars, passwords, rl_vars, db_vars, audit_log, th_vars,
                   obs>>

NextLogin ==
    \/ LoginTick
    \/ \E form_username \in LoginUsernames, password \in LoginPasswords,
          client_ip \in ClientIps, stored \in StoredInputs :
          Login(form_username, password, client_ip, stored)

SpecLogin == InitLogin /\ [][NextLogin]_vars

---------------------------------------------------------------------------
(* Accounts: create_admin.py, registration and the admin routes, one       *)
(* request per step.  A request carries a session cookie (the id of the    *)
(* user who logged in) or none.                                            *)

Adm == <<"a", "d", "m">>

EmailA == <<"a", "@", "x", ".", "y">>

Form(username, email, password, password_confirm, role) ==
    [username |-> username, email |-> email, password |-> password,
     password_confirm |-> password_confirm, role |-> role]

\* the forms posted to /register and to /admin/users/create
AccountForms ==
    { Form(Eve, EmailE, Pw1, Pw1, Some("admin")),
      Form(BobCap, EmailBCap, Pw1, Pw1, None),
      Form(Eve, EmailE, Pw1, Pw2, None),
      Form(Eve, EmailE, PwShort, PwShort, Some("resident")),
      Form(Blank, EmailE, Pw1, Pw1, None),
      Form(Eve, EmailE, Pw1, Pw1, Some("root")) }

SessionInputs == {None} \cup {Some(i) : i \in 1..MaxUsers}

\* create_admin.py: the script asks until the details pass its checks and
\* then calls create_user with role 'admin'
CreateAdmin(username, email, password, salt) ==
    LET r == create_user(users, next_user_id, username, email, password,
                         "admin", None, salt)
    IN  /\ next_user_id <= MaxUsers
        /\ users' = r.users
        /\ next_user_id' = r.next_user_id
        /\ passwords' = IF r.value # None
                        THEN DictSet(passwords, r.value[1], password)
                        ELSE passwords
        /\ ret' = [op |-> "create_admin", outcome |-> r.error,
                   session |-> None, value |-> r.value, events |-> <<>>]
        /\ UNCHANGED <<sg_vars, now, rl_vars, properties, next_property_id,
                       user_properties, audit_log, th_vars, obs>>

Register(session, form, client_ip, salt, stored) ==
    /\ next_user_id <= MaxUsers
    /\ \E r \in {register(users, next_user_id, session, form, client_ip, salt)} :
        /\ Len(StoreEvents(audit_log, r.events, stored)) <= MaxAudit
        /\ users' = r.users
        /\ next_user_id' = r.next_user_id
        /\ audit_log' = StoreEvents(audit_log, r.events, stored)
        /\ passwords' = IF r.value # None
                        THEN DictSet(passwords, r.value[1], form.password)
                        ELSE passwords
        /\ ret' = [op |-> "register", outcome |-> r.outcome,
                   session |-> session, value |-> r.value, events |-> r.events,
                   form |-> form]
        /\ UNCHANGED <<sg_vars, now, rl_vars, properties, next_property_id,
                       user_properties, th_vars, obs>>

AdminCreateUser(session, form, salt) ==
    /\ next_user_id <= MaxUsers
    /\ \E r \in {admin_create_user(users, next_user_id, session, form, salt)} :
        /\ users' = r.users
        /\ next_user_id' = r.next_user_id
        /\ passwords' = IF r.value # None
                        THEN DictSet(passwords, r.value[1], form.password)
                        ELSE passwords
        /\ ret' = [op |-> "admin_create_user", outcome |-> r.outcome,
                   session |-> session, value |-> r.value, events |-> r.events,
                   form |-> form]
        /\ UNCHANGED <<sg_vars, now, rl_vars, properties, next_property_id,
                       user_properties, audit_log, th_vars, obs>>

AdminToggleUserActive(session, user_id) ==
    \E r \in {admin_toggle_user_active(users, session, user_id)} :
        /\ users' = r.users
        /\ audit_log' = StoreEvents(audit_log, r.events, <<>>)
        /\ ret' = [op |-> "admin_toggle_user_active", outcome |-> r.outcome,
                   session |-> session, value |-> Some(user_id),
                   events |-> r.events]
        /\ UNCHANGED <<sg_vars, passwords, now, rl_vars, next_user_id,
                       properties, next_property_id, user_properties, th_vars,
                       obs>>

AdminDeleteUser(session, user_id) ==
    \E r \in {admin_delete_user(users, session, user_id)} :
        /\ users' = r.users
        /\ audit_log' = StoreEvents(audit_log, r.events, <<>>)
        /\ ret' = [op |-> "admin_delete_user", outcome |-> r.outcome,
                   session |-> session, value |-> Some(user_id),
                   events |-> r.events]
        /\ UNCHANGED <<sg_vars, passwords, now, rl_vars, next_user_id,
                       properties, next_property_id, user_properties, th_vars,
                       obs>>

NextAccounts ==
    \/ \E salt \in Salts : CreateAdmin(Adm, EmailA, Pw1, salt)
    \/ \E session \in SessionInputs, form \in AccountForms, salt \in Salts,
          stored \in StoredInputs :
          Register(session, form, Ip1, salt, stored)
    \/ \E session \in SessionInputs, form \in AccountForms, salt \in Salts :
          AdminCreateUser(session, form, salt)
    \/ \E session \in SessionInputs, user_id \in UserIdInputs :
          AdminToggleUserActive(session, user_id)
    \/ \E session \in SessionInputs, user_id \in UserIdInputs :
          AdminDeleteUser(session, user_id)

SpecAccounts == InitBase /\ [][NextAccounts]_vars

---------------------------------------------------------------------------
(* record_attempt run by concurrent request threads.  The rate limiter is  *)
(* a module-level object shared by the threads of the server, and its      *)
(* methods take no lock; a thread can be preempted between any two reads   *)
(* or writes of the maps.  Each step below is one read or one write:       *)
(*   clean   the list comprehension of _clean_old_attempts reads the list  *)
(*   store   its result is assigned to attempts[identifier]                *)
(*   append  the new attempt is appended to the current list               *)
(*   clear / unlock   the success branch                                   *)
(*   count   the failed attempts of the current list are counted           *)
(*   lock    the lockout is set if the count reached max_attempts          *)
(***************************************************************************)

Threads == 1..NThreads

ConcIds == {Bob}

IdleLoc == [id |-> Bob, success |-> FALSE, kept |-> <<>>, n |-> 0]

InitConc ==
    /\ now = 0
    /\ attempts = [id \in Identifiers |-> <<>>]
    /\ lockouts = [id \in {} |-> 0]
    /\ users = {}
    /\ next_user_id = 1
    /\ properties = {}
    /\ next_property_id = 1
    /\ user_properties = {}
    /\ audit_log = <<>>
    /\ sightings = {}
    /\ next_sighting_id = 1
    /\ passwords = [id \in {} |-> <<>>]
    /\ ret = [op |-> "init"]
    /\ pc = [t \in Threads |-> "idle"]
    /\ loc = [t \in Threads |-> IdleLoc]
    /\ obs = [id \in Identifiers |->
                [fails |-> <<>>, fifth |-> None, succ |-> FALSE, recent |-> <<>>,
                 calls |-> 0]]

\* a request thread enters record_attempt(id, success)
ConcCall(t, id, success) ==
    /\ pc[t] = "idle"
    /\ obs[id].calls < MaxCalls
    /\ pc' = [pc EXCEPT ![t] = "clean"]
    /\ loc' = [loc EXCEPT ![t] = [id |-> id, success |-> success,
                                   kept |-> <<>>, n |-> 0]]
    /\ obs' = [obs EXCEPT ![id].succ = @ \/ success, ![id].calls = @ + 1]
    /\ ret' = [op |-> "call", thread |-> t]
    /\ UNCHANGED <<sg_vars, passwords, now, rl_vars, db_vars, audit_log>>

ConcClean(t) ==
    /\ pc[t] = "clean"
    /\ loc' = [loc EXCEPT ![t].kept =
                  _clean_old_attempts(attempts, loc[t].id, now)[loc[t].id]]
    /\ pc' = [pc EXCEPT ![t] = "store"]
    /\ ret' = [op |-> "clean", thread |-> t]
    /\ UNCHANGED <<sg_vars, passwords, now, rl_vars, db_vars, audit_log, obs>>

ConcStore(t) ==
    /\ pc[t] = "store"
    /\ attempts' = [attempts EXCEPT ![loc[t].id] = loc[t].kept]
    /\ pc' = [pc EXCEPT ![t] = "append"]
    /\ ret' = [op |-> "store", thread |-> t]
    /\ UNCHANGED <<sg_vars, passwords, now, lockouts, db_vars, audit_log,
                   loc, obs>>

ConcAppend(t) ==
    /\ pc[t] = "append"
    /\ attempts' = [attempts EXCEPT ![loc[t].id] =
                       Append(@, <<now, loc[t].success>>)]
    /\ pc' = [pc EXCEPT ![t] = IF loc[t].success THEN "clear" ELSE "count"]
    /\ ret' = [op |-> "append", thread |-> t]
    /\ UNCHANGED <<sg_vars, passwords, now, lockouts, db_vars, audit_log,
                   loc, obs>>

ConcClear(t) ==
    /\ pc[t] = "clear"
    /\ attempts' = [attempts EXCEPT ![loc[t].id] = <<>>]
    /\ pc' = [pc EXCEPT ![t] = "unlock"]
    /\ ret' = [op |-> "clear", thread |-> t]
    /\ UNCHANGED <<sg_vars, passwords, now, lockouts, db_vars, audit_log,
                   loc, obs>>

ConcUnlock(t) ==
    /\ pc[t] = "unlock"
    /\ lockouts' = IF loc[t].id \in DOMAIN lockouts
                   THEN DictDel(lockouts, loc[t].id) ELSE lockouts
    /\ pc' = [pc EXCEPT ![t] = "idle"]
    /\ loc' = [loc EXCEPT ![t] = IdleLoc]
    /\ ret' = [op |-> "unlock", thread |-> t]
    /\ UNCHANGED <<sg_vars, passwords, now, attempts, db_vars, audit_log, obs>>

ConcCount(t) ==
    /\ pc[t] = "count"
    /\ loc' = [loc EXCEPT ![t].n = Len(Failed(attempts[loc[t].id]))]
    /\ pc' = [pc EXCEPT ![t] = "lock"]
    /\ ret' = [op |-> "count", thread |-> t]
    /\ UNCHANGED <<sg_vars, passwords, now, rl_vars, db_vars, audit_log, obs>>

ConcLock(t, stored) ==
    LET id == loc[t].id
        due == loc[t].n >= max_attempts
        log == IF due
               THEN log_security_event(audit_log,
                        AuditEntry(ACCOUNT_LOCKED, None, None, "locked",
                                   Some(id), TRUE), stored)
               ELSE audit_log
    IN  /\ pc[t] = "lock"
        /\ Len(log) <= MaxAudit
        /\ lockouts' = IF due THEN DictSet(lockouts, id, now + lockout_duration)
                       ELSE lockouts
        /\ audit_log' = log
        /\ pc' = [pc EXCEPT ![t] = "idle"]
        /\ loc' = [loc EXCEPT ![t] = IdleLoc]
        /\ obs' = [obs EXCEPT ![id].fails = Append(@, now)]
        /\ ret' = [op |-> "lock", thread |-> t]
        /\ UNCHANGED <<sg_vars, passwords, now, attempts, db_vars>>

NextConc ==
    \/ \E t \in Threads, id \in ConcIds, success \in BOOLEAN : ConcCall(t, id, success)
    \/ \E t \in Threads : ConcClean(t)
    \/ \E t \in Threads : ConcStore(t)
    \/ \E t \in Threads : ConcAppend(t)
    \/ \E t \in Threads : ConcClear(t)
    \/ \E t \in Threads : ConcUnlock(t)
    \/ \E t \in Threads : ConcCount(t)
    \/ \E t \in Threads, stored \in BOOLEAN : ConcLock(t, stored)

SpecConc == InitConc /\ [][NextConc]_vars

\* C5: with concurrent record_attempt calls for the same identifier no
\* recorded failure is lost: when k failed calls have completed, with no
\* successful call, the identifier's failure count is k, and it is locked
\* out as soon as k >= 5, for every interleaving of the calls' steps.
C5_NoLostFailure ==
    \A id \in ConcIds :
        ((\A t \in DOMAIN pc : pc[t] = "idle") /\ ~obs[id].succ) =>
            /\ Len(Failed(attempts[id])) = Len(obs[id].fails)
            /\ (Len(obs[id].fails) >= max_attempts => id \in DOMAIN lockouts)

\* C8: after any sequence of create_user, update_user, update_user_password
\* and delete_user calls, no two stored users have usernames equal ignoring
\* case, no two have emails equal ignoring case, and stored usernames and
\* emails are lowercase.
C8_CaseInsensitiveUnique ==
    /\ \A u \in users : u.username = Lower(u.username) /\ u.email = Lower(u.email)
    /\ \A u1, u2 \in users :
          u1 # u2 => /\ Lower(u1.username) # Lower(u2.username)
                     /\ Lower(u1.email) # Lower(u2.email)

\* the inputs create_user's validation accepts
ValidNewUser(username, email, password, role) ==
    /\ Len(Strip(username)) >= MinUsernameLen
    /\ Contains(email, "@")
    /\ Len(password) >= MinPasswordLen
    /\ role \in Roles

\* C9: create_user with a new username and email succeeds; one whose
\* username equals an existing one after trimming and lower-casing fails
\* with the username conflict whatever its email; one whose email equals an
\* existing one, with a new username, fails with the email conflict; a
\* failure adds no row.
C9_CreateUserConflicts ==
    (/\ ret.op = "create_user"
     /\ ValidNewUser(ret.username, ret.email, ret.password, ret.role)) =>
        LET u == Lower(Strip(ret.username))
            e == Lower(Strip(ret.email))
            username_taken == \E r \in ret.before : r.username = u
            email_taken    == \E r \in ret.before : r.email = e
        IN  /\ username_taken =>
                (ret.error = "Username already exists" /\ users = ret.before)
            /\ (~username_taken /\ email_taken) =>
                (ret.error = "Email already exists" /\ users = ret.before)
            /\ (~username_taken /\ ~email_taken) =>
                /\ ret.error = NoError
                /\ \E r \in users \ ret.before : r.username = u /\ r.email = e

\* C10: after delete_user(id) returns true, the user row is gone and no
\* user_properties row with user_id = id remains.
C10_DeleteCascades ==
    (ret.op = "delete_user" /\ ret.value = Some(TRUE)) =>
        /\ \A u \in users : u.id # ret.user_id
        /\ \A r \in user_properties : r.user_id # ret.user_id

\* C1: once 5 failed record_attempt(X, False) calls were recorded within
\* 300 seconds with no success in between, is_locked_out(X) returns true at
\* every moment before 900 seconds after the 5th failure, and the first
\* is_locked_out(X) call at or after that moment returns false and leaves
\* X's attempt history empty.
C1_LockoutWindow ==
    (ret.op = "is_locked_out" /\ ret.fifth # None) =>
        IF ret.at < ret.fifth[1] + lockout_duration
        THEN ret.value = TRUE
        ELSE ret.value = FALSE /\ attempts[ret.id] = <<>>

\* C3: after record_attempt(X, True), whatever X's prior state, X is Clear:
\* get_remaining_attempts(X) is 5 and is_locked_out(X) is false immediately
\* afterwards.
C3_SuccessClears ==
    (ret.op = "record_attempt" /\ ret.success) =>
        /\ get_remaining_attempts(attempts, ret.id, now).ret = max_attempts
        /\ is_locked_out(attempts, lockouts, ret.id, now).ret = FALSE

\* a success was recorded for an identifier that was locked out
C3_SuccessWhileLocked ==
    /\ ret.op = "record_attempt"
    /\ ret.success
    /\ ret.was_locked
    /\ ret.had >= max_attempts

\* C4: failures older than the 300-second window are pruned before a new
\* attempt is recorded, and record_attempt(X, False) locks X only if,
\* counting the new failure, at least 5 failures of X have timestamps
\* within the last 300 seconds.
C4_WindowedLockout ==
    (ret.op = "record_attempt") =>
        /\ \A i \in 1..Len(attempts[ret.id]) :
              attempts[ret.id][i][1] > ret.at - window_seconds
        /\ (ret.locked => IsFifth(obs[ret.id].recent, ret.at))

\* 4 failures followed more than 300 seconds later by a 5th, which did not
\* lock the identifier
C4_StaleFourThenFifth ==
    /\ ret.op = "record_attempt"
    /\ ~ret.success
    /\ ~ret.locked
    /\ ret.had >= max_attempts - 1
    /\ Len(obs[ret.id].recent) = max_attempts
    /\ obs[ret.id].recent[1] = obs[ret.id].recent[max_attempts - 1]
    /\ obs[ret.id].recent[max_attempts - 1] < ret.at - window_seconds
    /\ ret.id \notin DOMAIN lockouts
    /\ Len(attempts[ret.id]) = 1

\* C2: in the login flow, if the lower-cased username or the client IP is
\* locked out, the attempt is rejected before verify_user_password is
\* called: no password is verified and no last_login is updated, whatever
\* the submitted password.
C2_LockedOutBlocks ==
    [][(ret'.op = "login" /\ (ret'.user_locked \/ ret'.ip_locked)) =>
          /\ ret'.outcome = "locked"
          /\ "verify_user_password" \notin Range(ret'.calls)
          /\ users' = users]_vars

\* a login with the right password for an active account whose username is
\* not locked was rejected because the client IP is locked
C2_BlockedByIpOnly ==
    /\ ret.op = "login"
    /\ ret.ip_locked
    /\ ~ret.user_locked
    /\ ret.creds_ok
    /\ ret.outcome = "locked"
    /\ \E u \in users : u.username = Bob /\ u.is_active = 1 /\ u.last_login = None

\* C6: username identifiers and IP identifiers are tracked independently:
\* a login changes the remaining attempts and the lockout state only of
\* the submitted username and of the IP the request came from, never of
\* another client's IP address or of another username.
C6_IndependentIdentifiers ==
    [][ret'.op = "login" =>
          \A id \in (ClientIps \ {ret'.ip}) \cup
                    ({Bob, Eve} \ {Lower(Strip(ret'.username))}) :
              /\ get_remaining_attempts(attempts', id, now').ret =
                 get_remaining_attempts(attempts, id, now).ret
              /\ Locked(lockouts', id, now') = Locked(lockouts, id, now)]_vars

\* C7: every login attempt that reaches credential verification feeds its
\* result back: whatever the outcome, an attempt is recorded in the rate
\* limiter for the username and the IP, and a login success/failure audit
\* event is logged.
C7_ResultFedBack ==
    (ret.op = "login" /\ "verify_user_password" \in Range(ret.calls)) =>
        /\ "record_login_attempt" \in Range(ret.calls)
        /\ \E i \in 1..Len(ret.events) :
              ret.events[i].event_type \in {LOGIN_SUCCESS, LOGIN_FAILURE}

\* C11: update_user rejects any call whose data contains a key outside
\* allowed_fields: the call fails with a validation error and changes no
\* field of the user, whether or not the data also contains allowed keys.
C11_RejectsDisallowedKeys ==
    (ret.op = "update_user" /\ Keys(ret.data) \ allowed_fields # {}) =>
        /\ ret.error # NoError
        /\ users = ret.before

\* C12: after any sequence of create_sighting, update_sighting and
\* delete_sighting calls every stored sighting has roach_count >= 1 and a
\* location that is neither empty nor whitespace-only; a call with an empty
\* or whitespace-only location or with roach_count < 1 fails with a
\* validation error before any write.
C12_SightingInvariant ==
    /\ \A s \in sightings :
          ~Int64Less(s.roach_count, Int64(1)) /\ Strip(s.location) # <<>>
    /\ (/\ ret.op \in {"create_sighting", "update_sighting"}
        /\ \/ ("location" \in Keys(ret.data) /\
               Strip(ValueOf(ret.data, "location")) = <<>>)
           \/ Int64Less(Get(ret.data, "roach_count", Int64(1)), Int64(1)))
       => (ret.error # NoError /\ sightings = ret.sightings_before)

\* the user of ret.before that verify_user_password(ret.username, .) looks
\* up, with the password most recently set for it
LatestPasswordIs(p) ==
    \E u \in ret.before :
        /\ u.username = Lower(Strip(ret.username))
        /\ u.id \in DOMAIN passwords
        /\ passwords[u.id] = p
        /\ ret.value = Some(u)

\* C13 as stated: for every username and every non-empty p,
\* verify_user_password(username, p) never raises, and returns the user
\* record if and only if a user with the trimmed, lower-cased username
\* exists and p is the password most recently set for it.
C13_VerifyIffLatest_AnyUsername ==
    (ret.op = "verify_user_password" /\ ret.password # <<>>) =>
        /\ ret.error = NoError
        /\ (ret.value # None <=> LatestPasswordIs(ret.password))

\* C13 (amended): for every non-empty username and every non-empty p,
\* verify_user_password(username, p) never raises, and returns the user
\* record if and only if a user with the trimmed, lower-cased username
\* exists and p is the password most recently set for it (by create_user
\* or update_user_password); otherwise it returns None.
C13_VerifyIffLatest ==
    (ret.op = "verify_user_password" /\ ret.password # <<>> /\
     ret.username # <<>>) =>
        /\ ret.error = NoError
        /\ (ret.value # None <=> LatestPasswordIs(ret.password))
        /\ \A u \in ret.before :
              (u.username = Lower(Strip(ret.username)) /\
               passwords[u.id] = ret.password) => ret.value = Some(u)

\* a password changed by update_user_password was verified under a
\* username given with padding and capitals
C13_VerifiedAfterChange ==
    /\ ret.op = "verify_user_password"
    /\ ret.username = BobCap
    /\ ret.password = Pw2
    /\ ret.value # None
    /\ ret.value[1].username = Bob
    /\ passwords[ret.value[1].id] = Pw2

\* the audit event that mirrors an administrative mutation
MirrorEvent(outcome) ==
    CASE outcome = "activated" -> USER_ACTIVATED
      [] outcome = "deactivated" -> USER_DEACTIVATED
      [] outcome = "deleted" -> USER_DELETED

\* C14: every successful administrative mutation of a user account, an
\* activation toggle through admin_toggle_user_active or a deletion through
\* admin_delete_user, is followed by a corresponding entry in the audit log
\* (user_activated / user_deactivated / user_deleted).
C14_AdminMutationsAudited ==
    (/\ ret.op \in {"admin_toggle_user_active", "admin_delete_user"}
     /\ ret.outcome \in {"activated", "deactivated", "deleted"}) =>
        \/ \E i \in 1..Len(ret.events) :
              ret.events[i].event_type = MirrorEvent(ret.outcome)
        \/ \E i \in 1..Len(audit_log) :
              /\ audit_log[i].event_type = MirrorEvent(ret.outcome)
              /\ audit_log[i].user_id = ret.value

\* the store operations that write
MutatingOps ==
    {"create_user", "update_user", "update_user_password", "delete_user",
     "assign_user_to_property", "create_sighting", "update_sighting",
     "delete_sighting"}

PairRows(ups, user_id, property_id) ==
    {r \in ups : r.user_id = user_id /\ r.property_id = property_id}

\* C16: user_properties holds at most one row per (user_id, property_id)
\* pair, whose relationship_type is the one given by the most recent
\* successful assign_user_to_property call for the pair; a second
\* assignment of a pair returns success without raising.
C16_AssignIsUpsert ==
    [][/\ \A r \in user_properties' :
             Cardinality(PairRows(user_properties', r.user_id, r.property_id)) = 1
       /\ (ret'.op = "assign_user_to_property" /\
           ret'.relationship_type \in RelationshipTypes /\
           ret'.user_id >= 1 /\ ret'.property_id >= 1)
          => /\ ret'.error = NoError
             /\ ret'.value = Some(TRUE)
             /\ PairRows(user_properties', ret'.user_id, ret'.property_id) =
                {[user_id |-> ret'.user_id, property_id |-> ret'.property_id,
                  relationship_type |-> ret'.relationship_type]}
             /\ \A r \in user_properties :
                   (r.user_id # ret'.user_id \/ r.property_id # ret'.property_id)
                      => r \in user_properties'
       /\ (ret'.op # "assign_user_to_property" \/ ret'.error # NoError)
          => user_properties' = user_properties]_vars

\* a pair that was assigned as owner was assigned again as resident
C16_Reassigned ==
    /\ ret.op = "assign_user_to_property"
    /\ ret.relationship_type = "resident"
    /\ [user_id |-> ret.user_id, property_id |-> ret.property_id,
        relationship_type |-> "owner"] \in ret.assoc_before
    /\ ret.value = Some(TRUE)
    /\ Cardinality(PairRows(user_properties, ret.user_id, ret.property_id)) = 1

\* the identifiers for which a sequence of events reports a lockout
LockedBy(events) ==
    {events[i].ip_address[1] :
        i \in {k \in 1..Len(events) : events[k].event_type = ACCOUNT_LOCKED}}

C18_RoleEnumerated ==
    /\ \A u \in users : u.role \in Roles
    /\ (ret.op = "create_user" /\ ret.role \notin Roles)
          => (ret.error # NoError /\ users = ret.before)
    /\ (ret.op = "update_user" /\ "role" \in Keys(ret.data) /\
        ValueOf(ret.data, "role") \notin Roles)
          => (ret.value # Some(TRUE) /\ users = ret.before)

\* update_user was given the role root for a stored property manager and
\* was refused
C18_BadRoleRefused ==
    /\ ret.op = "update_user"
    /\ "role" \in Keys(ret.data)
    /\ ValueOf(ret.data, "role") = "root"
    /\ ret.error # NoError
    /\ \E u \in users : u.id = ret.user_id /\ u.role = "property_manager"

\* C19: a failed record_attempt that brings the identifier's failures
\* inside the window to max_attempts locks the identifier until
\* lockout_duration seconds after that attempt and emits one account_locked
\* event naming the identifier.
C19_FifthFailureLocks ==
    (ret.op = "record_attempt" /\ ~ret.success
        /\ IsFifth(obs[ret.id].fails, ret.at))
    => /\ ret.id \in DOMAIN lockouts
       /\ lockouts[ret.id] = ret.at + lockout_duration
       /\ Len(ret.events) = 1
       /\ ret.events[1].event_type = ACCOUNT_LOCKED
       /\ ret.events[1].ip_address = Some(ret.id)

\* the fifth failure of an identifier that was not locked has locked it
C19_LockedAtFifth ==
    /\ ret.op = "record_attempt" /\ ~ret.success
    /\ ret.had = max_attempts - 1 /\ ~ret.was_locked
    /\ IsFifth(obs[ret.id].fails, ret.at)
    /\ ret.id \in DOMAIN lockouts
    /\ lockouts[ret.id] = ret.at + lockout_duration
    /\ Len(ret.events) = 1

\* C20: a user added by the register route has role resident whatever the
\* form carries; a user added with another role comes from create_admin or
\* from admin_create_user called with an admin's session; and no step
\* changes the role of a user that stays.
C20_RegisterForcesResident ==
    [][ /\ \A u \in users' :
            (\A v \in users : v.id # u.id)
            => /\ ret'.op = "register" => u.role = "resident"
               /\ u.role # "resident"
                  => \/ ret'.op = "create_admin"
                     \/ /\ ret'.op = "admin_create_user"
                        /\ admin_required(users, ret'.session) = "ok"
        /\ \A u \in users', v \in users : u.id = v.id => u.role = v.role
      ]_vars

\* a registration whose form asked for role admin has stored a resident
C20_RegisteredWithAdminField ==
    /\ ret.op = "register" /\ ret.outcome = "registered"
    /\ ret.form.role = Some("admin")
    /\ \E u \in users : u.id = ret.value[1] /\ u.role = "resident"

\* C21: a successful update_user_password(id, p) with Len(p) >= 8 leaves a
\* row for which verify_user_password succeeds with p and returns None with
\* the previous password when that differs from p; with a password shorter
\* than 8 characters the call fails and the previous password still
\* verifies.
C21_PasswordChangeTakesEffect ==
    [][ ret'.op = "update_user_password" =>
        /\ Len(ret'.password) < MinPasswordLen =>
              /\ ret'.error # NoError
              /\ users' = users
        /\ \A u \in users :
              (u.id = ret'.user_id /\ u.id \in DOMAIN passwords) =>
              LET prev == passwords[u.id]
                  V(p) == verify_user_password(users', u.username, p, now)
              IN  /\ (ret'.value = Some(TRUE) /\
                      Len(ret'.password) >= MinPasswordLen) =>
                        /\ V(ret'.password).value # None
                        /\ V(ret'.password).value[1].id = u.id
                        /\ prev # ret'.password =>
                              (V(prev).value = None /\ V(prev).error = NoError)
                  /\ Len(ret'.password) < MinPasswordLen =>
                        /\ V(prev).value # None
                        /\ V(prev).value[1].id = u.id
      ]_vars

\* a password was changed: the new one verifies and the old one does not
C21_ChangedPassword ==
    /\ ret.op = "update_user_password"
    /\ ret.value = Some(TRUE)
    /\ Len(ret.password) >= MinPasswordLen
    /\ \E u \in users, v \in ret.before :
          /\ u.id = ret.user_id /\ v.id = u.id
          /\ check_password_hash(v.password_hash, Pw1)
          /\ ret.password # Pw1
          /\ verify_user_password(users, u.username, ret.password, now).value
                # None
          /\ verify_user_password(users, u.username, Pw1, now).value = None

\* C22: no step updates or deletes an audit_log entry: the log after a step
\* is the log before it followed by the appended entries, so every entry
\* keeps its position, event type, username, user id, details, IP address
\* and success flag.
C22_AuditLogAppendOnly ==
    [][ /\ Len(audit_log') >= Len(audit_log)
        /\ SubSeq(audit_log', 1, Len(audit_log)) = audit_log
      ]_vars

\* the account a stored entry is about has been deleted and the entry is
\* still in the log
C22_EntryOutlivesUser ==
    /\ ret.op = "admin_delete_user" /\ ret.outcome = "deleted"
    /\ \E i \in 1..Len(audit_log) :
          /\ audit_log[i].event_type = REGISTRATION
          /\ audit_log[i].user_id = ret.value
          /\ audit_log[i].success
    /\ \A u \in users : Some(u.id) # ret.value

\* C23: get_statistics never raises; it returns total_sightings equal to the
\* number of stored sightings and total_roaches equal to the sum of their
\* roach_count values; on an empty store both are 0 and the locations,
\* sizes, times_of_day and recent_trend lists are empty.
C23_StatisticsTotals ==
    ret.op = "get_statistics" =>
        /\ ret.error = NoError
        /\ ret.value # None
        /\ ret.value[1].total_sightings = Cardinality(sightings)
        /\ ~SumRoachCount(sightings).overflow
        /\ ret.value[1].total_roaches = SumRoachCount(sightings).value
        /\ sightings = {} =>
              /\ ret.value[1].total_sightings = 0
              /\ ret.value[1].total_roaches = Int64(0)
              /\ ret.value[1].locations = <<>>
              /\ ret.value[1].sizes = <<>>
              /\ ret.value[1].times_of_day = <<>>
              /\ ret.value[1].recent_trend = <<>>

---------------------------------------------------------------------------
(* Password policy: validate_password_strength *)

UpperChars ==
    {"A", "B", "C", "D", "E", "F", "G", "H", "I", "J", "K", "L", "M", "N",
     "O", "P", "Q", "R", "S", "T", "U", "V", "W", "X", "Y", "Z"}

Alphabet ==
    <<"a", "b", "c", "d", "e", "f", "g", "h", "i", "j", "k", "l", "m", "n",
     "o", "p", "q", "r", "s", "t", "u", "v", "w", "x", "y", "z">>

Digits ==
    <<"0", "1", "2", "3", "4", "5", "6", "7", "8", "9">>

\* the grave accent, which a string of this language cannot hold
Backtick == "grave accent"

\* the characters of the class that has_special searches for
SpecialChars ==
    {"!", "@", "#", "$", "%", "^", "&", "*", "(", ")", ",", ".", "?", "\"",
     ":", "{", "}", "|", "<", ">", "_", "-", "+", "=", "[", "]", "\\", ";",
     "/", "~", Backtick}

common_patterns ==
    << <<"p", "a", "s", "s", "w", "o", "r", "d">>,
       <<"1", "2", "3", "4", "5", "6", "7", "8">>,
       <<"q", "w", "e", "r", "t", "y">>,
       <<"a", "b", "c", "1", "2", "3">>,
       <<"l", "e", "t", "m", "e", "i", "n">>,
       <<"w", "e", "l", "c", "o", "m", "e">>,
       <<"m", "o", "n", "k", "e", "y">>,
       <<"1", "2", "3", "4", "5", "6", "7", "8", "9", "0">>,
       <<"p", "a", "s", "s", "w", "o", "r", "d", "1", "2", "3">> >>

MaxPasswordLen == 128

\* s occurs in t as a substring
IsSubstring(s, t) ==
    \E i \in 1..(Len(t) - Len(s) + 1) : SubSeq(t, i, i + Len(s) - 1) = s

\* the alternatives of the pattern for sequential numbers: 012 to 789, 890
SequentialNumbers ==
    {SubSeq(Digits, k, k + 2) : k \in 1..8} \cup {<<"8", "9", "0">>}

\* the alternatives of the pattern for sequential letters: abc to xyz
SequentialLetters == {SubSeq(Alphabet, k, k + 2) : k \in 1..24}

\* the search for a character followed twice by itself; the dot of the
\* pattern matches any character but a newline
HasRepeatedChar(password) ==
    \E i \in 1..(Len(password) - 2) :
        /\ password[i] # "\n"
        /\ password[i + 1] = password[i]
        /\ password[i + 2] = password[i]

\* validate_password_strength: (is_valid, error_message)
validate_password_strength(password) ==
    LET No(msg) == [ok |-> FALSE, message |-> msg]
        has_upper   == \E i \in DOMAIN password : password[i] \in UpperChars
        has_lower   == \E i \in DOMAIN password :
                          password[i] \in Range(Alphabet)
        has_digit   == \E i \in DOMAIN password : password[i] \in Range(Digits)
        has_special == \E i \in DOMAIN password : password[i] \in SpecialChars
        password_lower == Lower(password)
    IN  IF password = <<>> THEN No("Password is required")
        ELSE IF Len(password) < MinPasswordLen
        THEN No("Password must be at least 8 characters")
        ELSE IF Len(password) > MaxPasswordLen
        THEN No("Password must be at most 128 characters")
        ELSE IF ~has_upper
        THEN No("Password must contain at least one uppercase letter")
        ELSE IF ~has_lower
        THEN No("Password must contain at least one lowercase letter")
        ELSE IF ~has_digit
        THEN No("Password must contain at least one number")
        ELSE IF ~has_special
        THEN No("Password must contain at least one special character")
        ELSE IF \E k \in DOMAIN common_patterns :
                    IsSubstring(common_patterns[k], password_lower)
        THEN No("Password contains a common pattern")
        ELSE IF \E s \in SequentialNumbers : IsSubstring(s, password)
        THEN No("Password should not contain sequential numbers")
        ELSE IF \E s \in SequentialLetters : IsSubstring(s, password_lower)
        THEN No("Password should not contain sequential letters")
        ELSE IF HasRepeatedChar(password)
        THEN No("Password should not contain repeated characters")
        ELSE [ok |-> TRUE, message |-> ""]

\* the pieces the passwords given to the validator are put together from
Long43 == [i \in 1..43 |-> <<"X", "q", "7", "!">>[((i - 1) % 4) + 1]]

Fragments ==
    { <<"T", "r", "0", "u", "b">>,
      <<"4", "d", "o", "r", "&", "3">>,
      <<"P", "a", "s", "s", "w", "o", "r", "d">>,
      <<"1", "2", "3">>,
      <<"!">>,
      <<"X", "y", "7", "!", "k", "q">>,
      <<"\n", "\n">>,
      <<"\n">>,
      <<"a", "a">>,
      <<"a">>,
      <<"8", "9">>,
      <<"0">>,
      <<"A", "B">>,
      <<"c">>,
      Long43 }

MaxFragments == 3

RECURSIVE Join(_)
Join(fs) == IF fs = <<>> THEN <<>> ELSE Head(fs) \o Join(Tail(fs))

StrengthInputs ==
    {Join(fs) : fs \in UNION {[1..k -> Fragments] : k \in 0..MaxFragments}}

\* the password the call is made with is drawn at the start
InitPolicy ==
    /\ now = 0
    /\ attempts = [id \in Identifiers |-> <<>>]
    /\ lockouts = [id \in {} |-> 0]
    /\ users = {}
    /\ next_user_id = 1
    /\ properties = {}
    /\ next_property_id = 1
    /\ user_properties = {}
    /\ audit_log = <<>>
    /\ sightings = {}
    /\ next_sighting_id = 1
    /\ passwords = [id \in {} |-> <<>>]
    /\ ret \in {[op |-> "password", password |-> p] : p \in StrengthInputs}
    /\ pc = NoThreads
    /\ loc = NoThreads
    /\ obs = [id \in Identifiers |->
                [fails |-> <<>>, fifth |-> None, succ |-> FALSE, recent |-> <<>>,
                 calls |-> 0]]

ValidatePasswordStrength ==
    /\ ret.op = "password"
    /\ ret' = [op |-> "validate_password_strength", password |-> ret.password,
               value |-> validate_password_strength(ret.password)]
    /\ UNCHANGED <<sg_vars, passwords, now, rl_vars, db_vars, audit_log,
                   th_vars, obs>>

NextPolicy == ValidatePasswordStrength

SpecPolicy == InitPolicy /\ [][NextPolicy]_vars

\* C24: validate_password_strength accepts a password if and only if its
\* length is 8 to 128, it has an uppercase letter, a lowercase letter, a
\* digit and a symbol of the punctuation set, its lower-cased form contains
\* no banned substring, it has no 3-character ascending run of digits or of
\* letters, and no character is repeated 3 or more times in a row.
C24_AcceptsIffStrong ==
    ret.op = "validate_password_strength" =>
    LET p == ret.password
        Pos(seq, c) == CHOOSE k \in DOMAIN seq : seq[k] = c
        Ascending(seq, q, i) ==
            /\ \A j \in i..(i + 2) : q[j] \in Range(seq)
            /\ Pos(seq, q[i + 1]) = Pos(seq, q[i]) + 1
            /\ Pos(seq, q[i + 2]) = Pos(seq, q[i]) + 2
    IN  ret.value.ok <=>
        /\ Len(p) >= 8 /\ Len(p) <= 128
        /\ \E i \in DOMAIN p : p[i] \in UpperChars
        /\ \E i \in DOMAIN p : p[i] \in Range(Alphabet)
        /\ \E i \in DOMAIN p : p[i] \in Range(Digits)
        /\ \E i \in DOMAIN p : p[i] \in SpecialChars
        /\ \A k \in DOMAIN common_patterns :
              ~IsSubstring(common_patterns[k], Lower(p))
        /\ \A i \in 1..(Len(p) - 2) :
              ~Ascending(Digits, p, i) /\ ~Ascending(Alphabet, Lower(p), i)
        /\ \A i \in 1..(Len(p) - 2) : ~(p[i] = p[i + 1] /\ p[i + 1] = p[i + 2])

\* C25: every user_properties row references a stored user and a stored
\* property, in every state reached by create_user, create_property,
\* assign_user_to_property and delete_user calls.
C25_AssociationsReferToRows ==
    \A up \in user_properties :
        /\ \E u \in users : u.id = up.user_id
        /\ \E p \in properties : p.id = up.property_id

---------------------------------------------------------------------------
(* login run by concurrent request threads.  The server handles each       *)
(* request in a thread of its own and the route takes no lock, so the      *)
(* threads interleave between the calls the route makes.  Each step below  *)
(* is one of those calls, taken as a whole:                                *)
(*   chk_user / chk_ip   check_rate_limit of the username and of the IP    *)
(*   verify              verify_user_password                              *)
(*   record              record_login_attempt                              *)
(*   log                 log_security_event of the outcome                 *)
(* The requests carry a wrong password for an existing user.  The run      *)
(* starts on a fresh process, or after max_attempts - 1 failed logins of   *)
(* the user made one after the other at time 0.                            *)
(***************************************************************************)

MaxConcLogins == 3

LoginLoc == [username |-> Bob, password |-> Pw2, client_ip |-> Ip1, ok |-> FALSE]

InitConcLogin ==
    /\ now = 0
    /\ \E n \in {0, max_attempts - 1} :
          /\ attempts = [id \in Identifiers |->
                           IF id \in {Bob, Ip1}
                           THEN [i \in 1..n |-> <<0, FALSE>>] ELSE <<>>]
          /\ obs = [id \in Identifiers |->
                      [fails |-> IF id = Bob THEN [i \in 1..n |-> 0] ELSE <<>>,
                       fifth |-> None, succ |-> FALSE, recent |-> <<>>,
                       calls |-> 0]]
    /\ lockouts = [id \in {} |-> 0]
    /\ users = {UserRow(1, Bob, EmailB, generate_password_hash(Pw1, "s1"),
                        "resident", None)}
    /\ next_user_id = 2
    /\ properties = {}
    /\ next_property_id = 1
    /\ user_properties = {}
    /\ audit_log = <<>>
    /\ sightings = {}
    /\ next_sighting_id = 1
    /\ passwords = [id \in {1} |-> Pw1]
    /\ ret = [op |-> "init"]
    /\ pc = [t \in Threads |-> "idle"]
    /\ loc = [t \in Threads |-> LoginLoc]

\* a request thread enters login; obs[username].calls counts the requests
ConcLoginStart(t) ==
    /\ pc[t] = "idle"
    /\ obs[Bob].calls < MaxConcLogins
    /\ pc' = [pc EXCEPT ![t] = "chk_user"]
    /\ loc' = [loc EXCEPT ![t] = LoginLoc]
    /\ obs' = [obs EXCEPT ![Bob].calls = @ + 1]
    /\ ret' = [op |-> "login", thread |-> t]
    /\ UNCHANGED <<sg_vars, passwords, now, rl_vars, db_vars, audit_log>>

ConcLoginCheck(t, step, id, next) ==
    /\ pc[t] = step
    /\ \E r \in {check_rate_limit(attempts, lockouts, id, now)} :
          /\ attempts' = r.attempts
          /\ lockouts' = r.lockouts
          /\ pc' = [pc EXCEPT ![t] = IF r.allowed THEN next ELSE "idle"]
          /\ ret' = [op |-> step, thread |-> t, allowed |-> r.allowed]
    /\ UNCHANGED <<sg_vars, passwords, now, db_vars, audit_log, loc, obs>>

ConcLoginCheckUser(t) ==
    ConcLoginCheck(t, "chk_user", Lower(loc[t].username), "chk_ip")

ConcLoginCheckIp(t) == ConcLoginCheck(t, "chk_ip", loc[t].client_ip, "verify")

\* obs[username].fails keeps the times of the wrong-password verifications
ConcLoginVerify(t) ==
    /\ pc[t] = "verify"
    /\ \E v \in {verify_user_password(users, loc[t].username, loc[t].password,
                                      now)} :
          /\ users' = v.users
          /\ loc' = [loc EXCEPT ![t].ok = v.value # None]
          /\ obs' = IF v.value = None
                    THEN [obs EXCEPT ![Lower(loc[t].username)].fails =
                                         Append(@, now)]
                    ELSE obs
          /\ ret' = [op |-> "verify", thread |-> t, ok |-> v.value # None]
    /\ pc' = [pc EXCEPT ![t] = "record"]
    /\ UNCHANGED <<sg_vars, passwords, now, rl_vars, next_user_id, properties,
                   next_property_id, user_properties, audit_log>>

ConcLoginRecord(t, stored) ==
    /\ pc[t] = "record"
    /\ \E r \in {record_login_attempt(attempts, lockouts, loc[t].username,
                                      loc[t].client_ip, loc[t].ok, now)} :
          /\ Len(StoreEvents(audit_log, r.events, stored)) <= MaxAudit
          /\ attempts' = r.attempts
          /\ lockouts' = r.lockouts
          /\ audit_log' = StoreEvents(audit_log, r.events, stored)
    /\ pc' = [pc EXCEPT ![t] = "log"]
    /\ ret' = [op |-> "record", thread |-> t]
    /\ UNCHANGED <<sg_vars, passwords, now, db_vars, loc, obs>>

ConcLoginLog(t, stored) ==
    LET entry == IF loc[t].ok
                 THEN AuditEntry(LOGIN_SUCCESS, Some(loc[t].username), Some(1),
                                 "success", Some(loc[t].client_ip), TRUE)
                 ELSE AuditEntry(LOGIN_FAILURE, Some(loc[t].username), None,
                                 "Invalid credentials", Some(loc[t].client_ip),
                                 FALSE)
        log == log_security_event(audit_log, entry, stored)
    IN  /\ pc[t] = "log"
        /\ Len(log) <= MaxAudit
        /\ audit_log' = log
        /\ pc' = [pc EXCEPT ![t] = "idle"]
        /\ loc' = [loc EXCEPT ![t] = LoginLoc]
        /\ ret' = [op |-> "log", thread |-> t]
        /\ UNCHANGED <<sg_vars, passwords, now, rl_vars, db_vars, obs>>

ConcLoginTick ==
    /\ now + LoginTickStep <= MaxTime
    /\ now' = now + LoginTickStep
    /\ ret' = [op |-> "tick"]
    /\ UNCHANGED <<sg_vars, passwords, rl_vars, db_vars, audit_log, th_vars,
                   obs>>

NextConcLogin ==
    \/ ConcLoginTick
    \/ \E t \in Threads : ConcLoginStart(t)
    \/ \E t \in Threads : ConcLoginCheckUser(t)
    \/ \E t \in Threads : ConcLoginCheckIp(t)
    \/ \E t \in Threads : ConcLoginVerify(t)
    \/ \E t \in Threads, stored \in StoredInputs : ConcLoginRecord(t, stored)
    \/ \E t \in Threads, stored \in BOOLEAN : ConcLoginLog(t, stored)

SpecConcLogin == InitConcLogin /\ [][NextConcLogin]_vars

\* C26: for one username, at most max_attempts wrong-password verifications
\* are made within one window of window_seconds, however the login requests
\* of concurrent threads interleave.
C26_AtMostFiveGuesses ==
    Cardinality({i \in DOMAIN obs[Bob].fails :
                    obs[Bob].fails[i] > now - window_seconds}) <= max_attempts

---------------------------------------------------------------------------
(* Logins around a lockout.  eve has failed max_attempts - 1 logins from   *)
(* Ip1 at time 0; the clock advances in steps short enough for requests to *)
(* arrive while a lockout is running, and it never stops.                  *)

LockTickStep == 450

InitLoginLock == InitLogin /\ attempts[Eve] # <<>>

LockTick ==
    /\ now + LockTickStep <= MaxTime
    /\ now' = now + LockTickStep
    /\ ret' = [op |-> "tick"]
    /\ UNCHANGED <<sg_vars, passwords, rl_vars, db_vars, audit_log, th_vars,
                   obs>>

\* the usernames of the requests: eve, and a user who is not locked
LockUsernames == {Eve, BobCap}

NextLoginLock ==
    \/ LockTick
    \/ \E form_username \in LockUsernames, password \in LoginPasswords,
          client_ip \in ClientIps, stored \in StoredInputs :
          Login(form_username, password, client_ip, stored)

SpecLoginLock == InitLoginLock /\ [][NextLoginLock]_vars /\ WF_vars(LockTick)

\* C27: a login rejected because of a lockout records no attempt and leaves
\* every running lockout as it is; a lockout is set to end lockout_duration
\* seconds after the step that sets it and no step moves or removes it
\* while it runs; and an identifier that is locked is eventually not locked.
C27_LockoutRunsItsCourse ==
    /\ [][ /\ (ret'.op = "login" /\ ret'.outcome = "locked") =>
                 \A id \in Identifiers :
                    /\ Len(attempts'[id]) <= Len(attempts[id])
                    /\ Locked(lockouts, id, now) => attempts'[id] = attempts[id]
           /\ \A id \in Identifiers :
                 /\ Locked(lockouts, id, now) =>
                       /\ id \in DOMAIN lockouts'
                       /\ lockouts'[id] = lockouts[id]
                 /\ (~Locked(lockouts, id, now) /\ Locked(lockouts', id, now')) =>
                       lockouts'[id] = now + lockout_duration
         ]_vars
    /\ \A id \in Identifiers :
          (Locked(lockouts, id, now) /\ lockouts[id] <= MaxTime)
             ~> ~Locked(lockouts, id, now)

\* a login was rejected for a lockout set 450 seconds earlier, which still
\* ends 900 seconds after it was set
C27_RejectedWhileLocked ==
    /\ ret.op = "login" /\ ret.outcome = "locked"
    /\ ret.user_locked
    /\ ret.at = LockTickStep
    /\ Locked(lockouts, Eve, now)
    /\ lockouts[Eve] = lockout_duration
    /\ Len(attempts[Eve]) = max_attempts

\* C28: a login with the right password for a user whose is_active is 0 is
\* rejected without a call of login_user, and load_user returns no user for
\* an id whose row is inactive or gone, so that a session of that id
\* authenticates no request made after the deactivation or deletion.
C28_InactiveNeverAuthenticated ==
    /\ \A u \in users :
          (u.is_active = 0 /\ u.id \in DOMAIN passwords) =>
          LET r == login(attempts, lockouts, users, u.username, passwords[u.id],
                         Ip1, now)
          IN  /\ "verify_user_password" \in Range(r.calls)
              /\ "login_user" \notin Range(r.calls)
              /\ r.outcome = "deactivated"
    /\ \A id \in 1..next_user_id :
          (\A u \in users : u.id = id => u.is_active = 0) =>
              /\ load_user(users, Some(id)) = None
              /\ admin_required(users, Some(id)) = "login"

\* an admin has just deactivated an account: its password still verifies,
\* the login is refused and its session loads no user
C28_DeactivatedAccount ==
    /\ ret.op = "admin_toggle_user_active" /\ ret.outcome = "deactivated"
    /\ \E u \in users :
          /\ Some(u.id) = ret.value
          /\ u.is_active = 0
          /\ verify_user_password(users, u.username, passwords[u.id], now).value
                # None
          /\ login(attempts, lockouts, users, u.username, passwords[u.id], Ip1,
                   now).outcome = "deactivated"
          /\ load_user(users, ret.value) = None

---------------------------------------------------------------------------
(* The admin routes run by concurrent request threads.  Each thread serves *)
(* the requests of one admin, who is logged in; the routes take no lock    *)
(* and each database call is a transaction of its own, so the threads      *)
(* interleave between the calls of a request:                              *)
(*   start   admin_required, with the current_user loaded for the request  *)
(*   fetch   get_user_by_id and the test against current_user.id           *)
(*   write   update_user or delete_user                                    *)
(***************************************************************************)

MaxAdminRequests == 3

AdminNames == <<Adm, Bob, Eve>>

AdminEmails == <<EmailA, EmailB, EmailE>>

AdminLoc == [op |-> "none", session |-> None, user_id |-> 0, is_active |-> 0]

\* one active admin per thread, created by create_admin.py
InitConcAdmin ==
    /\ now = 0
    /\ attempts = [id \in Identifiers |-> <<>>]
    /\ lockouts = [id \in {} |-> 0]
    /\ users = {UserRow(t, AdminNames[((t - 1) % 3) + 1],
                        AdminEmails[((t - 1) % 3) + 1] \o <<"0">>
                            \o [i \in 1..t |-> "0"],
                        generate_password_hash(Pw1, "s1"), "admin", None) :
                t \in Threads}
    /\ next_user_id = NThreads + 1
    /\ properties = {}
    /\ next_property_id = 1
    /\ user_properties = {}
    /\ audit_log = <<>>
    /\ sightings = {}
    /\ next_sighting_id = 1
    /\ passwords = [id \in Threads |-> Pw1]
    /\ ret = [op |-> "init"]
    /\ pc = [t \in Threads |-> "idle"]
    /\ loc = [t \in Threads |-> AdminLoc]
    /\ obs = [id \in Identifiers |->
                [fails |-> <<>>, fifth |-> None, succ |-> FALSE, recent |-> <<>>,
                 calls |-> 0]]

\* the request of admin t arrives and passes, or not, admin_required;
\* obs[Ip1].calls counts the requests
ConcAdminStart(t, op, user_id) ==
    /\ pc[t] = "idle"
    /\ obs[Ip1].calls < MaxAdminRequests
    /\ obs' = [obs EXCEPT ![Ip1].calls = @ + 1]
    /\ pc' = [pc EXCEPT ![t] = IF admin_required(users, Some(t)) = "ok"
                               THEN "fetch" ELSE "idle"]
    /\ loc' = [loc EXCEPT ![t] = [op |-> op, session |-> Some(t),
                                   user_id |-> user_id, is_active |-> 0]]
    /\ ret' = [op |-> op, thread |-> t, step |-> "start",
               outcome |-> admin_required(users, Some(t))]
    /\ UNCHANGED <<sg_vars, passwords, now, rl_vars, db_vars, audit_log>>

ConcAdminFetch(t) ==
    LET g == get_user_by_id(users, loc[t].user_id)
        outcome == IF g.value = None THEN "not_found"
                   ELSE IF loc[t].user_id = loc[t].session[1] THEN "self"
                   ELSE "write"
    IN  /\ pc[t] = "fetch"
        /\ pc' = [pc EXCEPT ![t] = IF outcome = "write" THEN "write" ELSE "idle"]
        /\ loc' = [loc EXCEPT ![t].is_active =
                       IF g.value = None THEN 0 ELSE g.value[1].is_active]
        /\ ret' = [op |-> loc[t].op, thread |-> t, step |-> "fetch",
                   outcome |-> outcome]
        /\ UNCHANGED <<sg_vars, passwords, now, rl_vars, db_vars, audit_log, obs>>

ConcAdminWrite(t) ==
    LET new_status == IF loc[t].is_active # 0 THEN 0 ELSE 1
        r == IF loc[t].op = "admin_toggle_user_active"
             THEN update_user(users, loc[t].user_id,
                              <<<<"is_active", new_status>>>>)
             ELSE delete_user(users, loc[t].user_id)
    IN  /\ pc[t] = "write"
        /\ users' = r.users
        /\ pc' = [pc EXCEPT ![t] = "idle"]
        /\ loc' = [loc EXCEPT ![t] = AdminLoc]
        /\ ret' = [op |-> loc[t].op, thread |-> t, step |-> "write",
                   outcome |-> "done"]
        /\ UNCHANGED <<sg_vars, passwords, now, rl_vars, next_user_id, properties,
                       next_property_id, user_properties, audit_log, obs>>

NextConcAdmin ==
    \/ \E t \in Threads, user_id \in Threads,
          op \in {"admin_toggle_user_active", "admin_delete_user"} :
          ConcAdminStart(t, op, user_id)
    \/ \E t \in Threads : ConcAdminFetch(t)
    \/ \E t \in Threads : ConcAdminWrite(t)

SpecConcAdmin == InitConcAdmin /\ [][NextConcAdmin]_vars

\* C29: starting with an active admin, at least one active admin account
\* remains after any interleaving of admin_toggle_user_active and
\* admin_delete_user requests of admins who were authenticated when their
\* request started.
C29_AnAdminRemains ==
    \E u \in users : u.role = "admin" /\ u.is_active # 0

---------------------------------------------------------------------------
(* check_rate_limit with the clock read twice: is_locked_out reads         *)
(* datetime.now() at t1, get_lockout_time_remaining reads it again at      *)
(* t2 >= t1.  The result of the second call goes into remaining // 60      *)
(* unchecked, which raises TypeError when it is None.                      *)
(***************************************************************************)

check_rate_limit_clock(att, lck, id, t1, t2) ==
    LET r == is_locked_out(att, lck, id, t1)
    IN  IF r.ret
        THEN LET g == get_lockout_time_remaining(r.lockouts, id, t2)
             IN  IF g.ret = None
                 THEN [raised |-> TRUE, allowed |-> FALSE, remaining |-> None,
                       minutes |-> 0, seconds |-> 0,
                       attempts |-> r.attempts, lockouts |-> g.lockouts]
                 ELSE [raised |-> FALSE, allowed |-> FALSE, remaining |-> g.ret,
                       minutes |-> g.ret[1] \div 60, seconds |-> g.ret[1] % 60,
                       attempts |-> r.attempts, lockouts |-> g.lockouts]
        ELSE [raised |-> FALSE, allowed |-> TRUE, remaining |-> None,
              minutes |-> 0, seconds |-> 0,
              attempts |-> r.attempts, lockouts |-> r.lockouts]

\* a call of check_rate_limit during which the clock advances by d
CheckRateLimitClock(id, d) ==
    LET r == check_rate_limit_clock(attempts, lockouts, id, now, now + d)
    IN  /\ now + d <= MaxTime
        /\ now' = now + d
        /\ attempts' = r.attempts
        /\ lockouts' = r.lockouts
        /\ obs' = [obs EXCEPT ![id] = ObsPoll(@, now)]
        /\ ret' = [op |-> "check_rate_limit", id |-> id, at |-> now,
                   elapsed |-> d, raised |-> r.raised, allowed |-> r.allowed,
                   remaining |-> r.remaining, minutes |-> r.minutes,
                   seconds |-> r.seconds]
        /\ UNCHANGED <<sg_vars, passwords, db_vars, audit_log, th_vars>>

NextRLClock ==
    \/ Tick
    \/ \E id \in RLIds, success \in BOOLEAN, stored \in BOOLEAN :
          RecordAttempt(id, success, stored)
    \/ \E id \in RLIds, d \in {0, TickStep} : CheckRateLimitClock(id, d)

SpecRLClock == InitBase /\ [][NextRLClock]_vars

\* C30: check_rate_limit never raises: it returns (True, None), or
\* (False, message) with a message built from a non-negative number of
\* remaining seconds, whatever time the clock shows between the
\* is_locked_out check and the get_lockout_time_remaining call; and
\* get_lockout_time_remaining is None exactly when is_locked_out at the same
\* instant is false.
C30_CheckNeverRaises ==
    /\ ret.op = "check_rate_limit" =>
          /\ ~ret.raised
          /\ \/ ret.allowed /\ ret.remaining = None
             \/ ~ret.allowed /\ ret.remaining # None /\ ret.remaining[1] >= 0
    /\ \A id \in Identifiers :
          (get_lockout_time_remaining(lockouts, id, now).ret = None)
              <=> ~is_locked_out(attempts, lockouts, id, now).ret

====
